---------------------------- MODULE Spec2Model ----------------------------
(***************************************************************************)
(* A model of the AI selection-editing endpoints of the repository:        *)
(*   supabase/functions/ai-edit/index.ts  (endpoint "supabase")            *)
(*   api/ai-edit.js                       (endpoint "api")                 *)
(*                                                                         *)
(* A text (a JavaScript string) is a sequence of lexemes: words, white     *)
(* space, digits, JSON punctuation, the double quote and the triple        *)
(* backtick.  The regular expressions, indexOf/lastIndexOf, slice, trim    *)
(* and JSON.parse of the source are computed on these sequences.           *)
(* A JavaScript value is a record tagged by its type in field t.           *)
(***************************************************************************)
EXTENDS Integers, Sequences, FiniteSets, TLC

\* ------------------------------------------------------------ bounds
\* Longest alternatives array the generator is taken to return.
MaxAlts == 2
\* Most lexemes a truncated reply has lost at its end.
MaxCut == 3
\* Most alternatives in a well-formed reply: one above the largest count an
\* action asks for.
MaxCount == 4

\* ------------------------------------------------------------ lexemes
\* The triple backtick, one lexeme (a backtick cannot be written in a string here).
FENCE == "<fence>"
QUOTE == "\""
JSONTAG == "json"
Spaces == {" ", "\n"}
DigitSeq == <<"0", "1", "2", "3", "4", "5", "6", "7", "8", "9">>
Digits == {DigitSeq[k] : k \in 1..Len(DigitSeq)}
DigitVal(d) == (CHOOSE k \in 1..Len(DigitSeq) : DigitSeq[k] = d) - 1

\* The decimal digits of a natural number.
RECURSIVE NumToStr(_)
NumToStr(n) ==
  IF n < Len(DigitSeq) THEN <<DigitSeq[n + 1]>>
  ELSE NumToStr(n \div Len(DigitSeq)) \o <<DigitSeq[(n % Len(DigitSeq)) + 1]>>

\* ------------------------------------------------------------ JS values
Undef == [t |-> "undef"]
Null == [t |-> "null"]
Str(s) == [t |-> "str", s |-> s]
Num(n) == [t |-> "num", n |-> n]
Bool(b) == [t |-> "bool", b |-> b]
Arr(items) == [t |-> "arr", items |-> items]
\* An object: its members in source order, each <<key, value>>, key a text.
Obj(members) == [t |-> "obj", members |-> members]
\* A built-in function, such as the Object.prototype members every object inherits.
Fn(name) == [t |-> "fn", name |-> name]

IsNullish(v) == v.t \in {"undef", "null"}

\* ToBoolean
Truthy(v) ==
  CASE v.t = "undef" -> FALSE
    [] v.t = "null" -> FALSE
    [] v.t = "str" -> Len(v.s) > 0
    [] v.t = "num" -> v.n # 0
    [] v.t = "bool" -> v.b
    [] OTHER -> TRUE

\* a ?? b
Coalesce(a, b) == IF IsNullish(a) THEN b ELSE a

\* a || b
OrElse(a, b) == IF Truthy(a) THEN a ELSE b

\* Array.isArray
IsArray(v) == v.t = "arr"

\* The indexes of the members of object o named key.
MemberIdx(o, key) == {i \in 1..Len(o.members) : o.members[i][1] = key}

\* v[key] for a value that is neither null nor undefined: an own member of an
\* object (JSON.parse keeps the last of duplicate keys), undefined otherwise.
Get(v, key) ==
  IF v.t = "obj" /\ MemberIdx(v, key) # {}
  THEN v.members[CHOOSE i \in MemberIdx(v, key) :
                   \A j \in MemberIdx(v, key) : j <= i][2]
  ELSE Undef

\* ------------------------------------------------------------ strings
\* String.prototype.trim
RECURSIVE TrimLeft(_)
TrimLeft(s) ==
  IF s # <<>> /\ Head(s) \in Spaces THEN TrimLeft(Tail(s)) ELSE s

RECURSIVE TrimRight(_)
TrimRight(s) ==
  IF s # <<>> /\ s[Len(s)] \in Spaces
  THEN TrimRight(SubSeq(s, 1, Len(s) - 1))
  ELSE s

Trim(s) == TrimRight(TrimLeft(s))

\* The least index >= i of s holding lexeme c; 0 when there is none.
IndexFrom(s, c, i) ==
  LET hits == {j \in i..Len(s) : s[j] = c}
  IN IF hits = {} THEN 0 ELSE CHOOSE j \in hits : \A k \in hits : j <= k

\* String.prototype.indexOf / lastIndexOf, 1-based; 0 when absent.
IndexOf(s, c) == IndexFrom(s, c, 1)

LastIndexOf(s, c) ==
  LET hits == {j \in 1..Len(s) : s[j] = c}
  IN IF hits = {} THEN 0 ELSE CHOOSE j \in hits : \A k \in hits : k <= j

\* s with every lexeme in cs removed.
Without(s, cs) ==
  LET Kept(c) == c \notin cs
  IN SelectSeq(s, Kept)

\* The lexemes of s at the indexes in keep, in their order.
AtIndexes(s, keep) ==
  [k \in 1..Cardinality(keep) |->
     s[CHOOSE i \in keep : Cardinality({j \in keep : j <= i}) = k]]

\* String(v)
RECURSIVE ToStr(_)
RECURSIVE JoinItems(_)
JoinItems(items) ==
  IF items = <<>> THEN <<>>
  ELSE (IF IsNullish(Head(items)) THEN <<>> ELSE ToStr(Head(items)))
       \o (IF Len(items) > 1 THEN <<",">> ELSE <<>>)
       \o JoinItems(Tail(items))

ToStr(v) ==
  CASE v.t = "str" -> v.s
    [] v.t = "num" -> NumToStr(v.n)
    [] v.t = "null" -> <<"null">>
    [] v.t = "undef" -> <<"undefined">>
    [] v.t = "bool" -> IF v.b THEN <<"true">> ELSE <<"false">>
    [] v.t = "arr" -> JoinItems(v.items)
    [] v.t = "fn" -> <<"function ", v.name, "() { [native code] }">>
    [] OTHER -> <<"[object Object]">>

\* ------------------------------------------------------------ fences
\* The inner callback s.replace(/<fence>json|<fence>/g, ""): every fence marker
\* goes, with the json tag that directly follows it.
RemoveJsonMarkers(m) ==
  AtIndexes(m, {i \in 1..Len(m) :
                  /\ m[i] # FENCE
                  /\ ~(m[i] = JSONTAG /\ i > 1 /\ m[i - 1] = FENCE)})

\* The inner callback s.replace(/<fence>/g, "").
RemoveMarkers(m) == Without(m, {FENCE})

\* raw.replace(/<fence>json[\s\S]*?<fence>/g, s => s.replace(...).trim()):
\* leftmost match first, each match the shortest from a tagged fence to the next
\* fence, the scan going on after the match.
RECURSIVE StripJsonFences(_)
StripJsonFences(s) ==
  LET starts == {p \in 1..(Len(s) - 1) :
                   /\ s[p] = FENCE
                   /\ s[p + 1] = JSONTAG
                   /\ IndexFrom(s, FENCE, p + 2) # 0}
  IN IF starts = {} THEN s
     ELSE LET p == CHOOSE x \in starts : \A y \in starts : x <= y
              q == IndexFrom(s, FENCE, p + 2)
          IN SubSeq(s, 1, p - 1)
             \o Trim(RemoveJsonMarkers(SubSeq(s, p, q)))
             \o StripJsonFences(SubSeq(s, q + 1, Len(s)))

\* A variant that drops what the fences enclose.
StripFences_Delete(s) ==
  IF IndexOf(s, FENCE) = 0 \/ IndexFrom(s, FENCE, IndexOf(s, FENCE) + 1) = 0
  THEN s
  ELSE SubSeq(s, 1, IndexOf(s, FENCE) - 1)
       \o SubSeq(s, IndexFrom(s, FENCE, IndexOf(s, FENCE) + 1) + 1, Len(s))

\* .replace(/<fence>[\s\S]*?<fence>/g, s => s.replace(/<fence>/g, "").trim())
RECURSIVE StripFences(_)
StripFences(s) ==
  LET starts == {p \in 1..Len(s) :
                   s[p] = FENCE /\ IndexFrom(s, FENCE, p + 1) # 0}
  IN IF starts = {} THEN s
     ELSE LET p == CHOOSE x \in starts : \A y \in starts : x <= y
              q == IndexFrom(s, FENCE, p + 1)
          IN SubSeq(s, 1, p - 1)
             \o Trim(RemoveMarkers(SubSeq(s, p, q)))
             \o StripFences(SubSeq(s, q + 1, Len(s)))

\* The whole of `clean`: both replacements, then trim.
CleanText(raw) == Trim(StripFences(StripJsonFences(raw)))

\* ------------------------------------------------------------ JSON.parse
\* A parse step: ok, the value read, and the index after it.
Fail == [ok |-> FALSE, val |-> Undef, pos |-> 0]
Got(v, p) == [ok |-> TRUE, val |-> v, pos |-> p]

RECURSIVE SkipWs(_, _)
SkipWs(s, i) == IF i <= Len(s) /\ s[i] \in Spaces THEN SkipWs(s, i + 1) ELSE i

\* A string literal opening at s[i]: up to the next quote, a raw line break
\* inside being a syntax error.
ParseString(s, i) ==
  LET j == IndexFrom(s, QUOTE, i + 1)
  IN IF j = 0 \/ \E k \in (i + 1)..(j - 1) : s[k] = "\n" THEN Fail
     ELSE Got(Str(SubSeq(s, i + 1, j - 1)), j + 1)

\* A number opening at s[i]: a run of digits, with no leading zero.
RECURSIVE ParseDigits(_, _, _)
ParseDigits(s, i, acc) ==
  IF i <= Len(s) /\ s[i] \in Digits
  THEN ParseDigits(s, i + 1, acc * Len(DigitSeq) + DigitVal(s[i]))
  ELSE Got(Num(acc), i)

ParseNumber(s, i) ==
  IF s[i] = "0" /\ i < Len(s) /\ s[i + 1] \in Digits THEN Fail
  ELSE ParseDigits(s, i, 0)

\* The parser is written as a chain of steps, each handing what it has read to
\* the next.
RECURSIVE ParseValue(_, _)
RECURSIVE ParseMembers(_, _, _)
RECURSIVE ParseElements(_, _, _)

\* After a member: "}" closes the object, "," opens the next member.
MemberEnd(s, e, acc) ==
  IF e > Len(s) THEN Fail
  ELSE IF s[e] = "}" THEN Got(Obj(acc), e + 1)
  ELSE IF s[e] = "," THEN ParseMembers(s, SkipWs(s, e + 1), acc)
  ELSE Fail

\* After a member's value v, its key being k.
AfterMemberValue(s, k, v, acc) ==
  IF ~v.ok THEN Fail
  ELSE MemberEnd(s, SkipWs(s, v.pos), Append(acc, <<k.val.s, v.val>>))

\* After a member's key k: the colon at s[c], then the value.
AfterKey(s, k, c, acc) ==
  IF c > Len(s) \/ s[c] # ":" THEN Fail
  ELSE AfterMemberValue(s, k, ParseValue(s, c + 1), acc)

MemberFrom(s, k, acc) ==
  IF ~k.ok THEN Fail ELSE AfterKey(s, k, SkipWs(s, k.pos), acc)

\* The members of an object, s[i] being where a member must open.
ParseMembers(s, i, acc) ==
  IF i > Len(s) \/ s[i] # QUOTE THEN Fail
  ELSE MemberFrom(s, ParseString(s, i), acc)

\* After an element: "]" closes the array, "," opens the next element.
ElementEnd(s, e, acc) ==
  IF e > Len(s) THEN Fail
  ELSE IF s[e] = "]" THEN Got(Arr(acc), e + 1)
  ELSE IF s[e] = "," THEN ParseElements(s, e + 1, acc)
  ELSE Fail

AfterElement(s, v, acc) ==
  IF ~v.ok THEN Fail
  ELSE ElementEnd(s, SkipWs(s, v.pos), Append(acc, v.val))

\* The elements of an array, s[i] being where an element must open.
ParseElements(s, i, acc) == AfterElement(s, ParseValue(s, i), acc)

\* "{" read, s[j] the next lexeme that is not white space.
ParseObject(s, j) ==
  IF j <= Len(s) /\ s[j] = "}" THEN Got(Obj(<<>>), j + 1)
  ELSE ParseMembers(s, j, <<>>)

\* "[" read, s[j] the next lexeme that is not white space.
ParseArray(s, j) ==
  IF j <= Len(s) /\ s[j] = "]" THEN Got(Arr(<<>>), j + 1)
  ELSE ParseElements(s, j, <<>>)

\* The value opening at s[i], no white space.
ParseAt(s, i) ==
  IF i > Len(s) THEN Fail
  ELSE CASE s[i] = "{" -> ParseObject(s, SkipWs(s, i + 1))
         [] s[i] = "[" -> ParseArray(s, SkipWs(s, i + 1))
         [] s[i] = QUOTE -> ParseString(s, i)
         [] s[i] \in Digits -> ParseNumber(s, i)
         [] s[i] = "null" -> Got(Null, i + 1)
         [] s[i] = "true" -> Got(Bool(TRUE), i + 1)
         [] s[i] = "false" -> Got(Bool(FALSE), i + 1)
         [] OTHER -> Fail

ParseValue(s, i) == ParseAt(s, SkipWs(s, i))

\* A thrown exception is ok = FALSE.
Thrown == [ok |-> FALSE, val |-> Undef]

\* Only white space may follow the value.
ParseEnd(s, r) ==
  IF r.ok /\ SkipWs(s, r.pos) > Len(s) THEN [ok |-> TRUE, val |-> r.val]
  ELSE Thrown

\* JSON.parse(s): ok is FALSE where it throws a SyntaxError.
JsonParse(s) == ParseEnd(s, ParseValue(s, 1))

\* JSON.stringify(v) of a value parsed from JSON.
RECURSIVE Stringify(_)
RECURSIVE StringifyMembers(_)
RECURSIVE StringifyItems(_)
StringifyMembers(ms) ==
  IF ms = <<>> THEN <<>>
  ELSE <<QUOTE>> \o Head(ms)[1] \o <<QUOTE, ":">> \o Stringify(Head(ms)[2])
       \o (IF Len(ms) > 1 THEN <<",">> ELSE <<>>)
       \o StringifyMembers(Tail(ms))

StringifyItems(items) ==
  IF items = <<>> THEN <<>>
  ELSE Stringify(Head(items))
       \o (IF Len(items) > 1 THEN <<",">> ELSE <<>>)
       \o StringifyItems(Tail(items))

Stringify(v) ==
  CASE v.t = "str" -> <<QUOTE>> \o v.s \o <<QUOTE>>
    [] v.t = "num" -> NumToStr(v.n)
    [] v.t = "bool" -> IF v.b THEN <<"true">> ELSE <<"false">>
    [] v.t = "arr" -> <<"[">> \o StringifyItems(v.items) \o <<"]">>
    [] v.t = "obj" -> <<"{">> \o StringifyMembers(v.members) \o <<"}">>
    [] OTHER -> <<"null">>

\* ------------------------------------------------------------ prompts
Endpoints == {"supabase", "api"}

\* SCHEMA_3 / SCHEMA_2: the output-format directive naming n alternatives.
RECURSIVE SchemaShape(_, _)
SchemaShape(i, n) ==
  IF i > n THEN <<>>
  ELSE <<"{", QUOTE, "label", QUOTE, ":", QUOTE, "Option", " ">> \o NumToStr(i)
       \o <<QUOTE, ",", QUOTE, "text", QUOTE, ":", QUOTE, "...", QUOTE, "}">>
       \o (IF i < n THEN <<",">> ELSE <<>>)
       \o SchemaShape(i + 1, n)

\* A variant that names three alternatives whatever the shape.
Schema_AlwaysThree(n) ==
  <<"Return ONLY valid JSON - no prose, no markdown fences.", "\n",
    "Schema (exactly ", "3", " alternatives):", "\n",
    "{", QUOTE, "alternatives", QUOTE, ":", "[">>
  \o SchemaShape(1, n) \o <<"]", "}">>

Schema(n) ==
  <<"Return ONLY valid JSON - no prose, no markdown fences.", "\n",
    "Schema (exactly ">> \o NumToStr(n) \o <<" alternatives):", "\n",
    "{", QUOTE, "alternatives", QUOTE, ":", "[">>
  \o SchemaShape(1, n) \o <<"]", "}">>

SCHEMA_3 == Schema(3)
SCHEMA_2 == Schema(2)

\* BASE_SYSTEM, a lexeme per line: the two files word its last two rules
\* differently.
BASE_SYSTEM(endpoint) ==
  <<"You are a world-class editor inside a writing app.", "\n",
    "You will receive: note title, full note text, the exact selected text, and surrounding context.", "\n",
    "Your job: produce alternative rewrites of ONLY the selected text.", "\n",
    "Rules:", "\n",
    "* Do NOT edit anything outside the selection.", "\n",
    "* Keep consistent with the note's voice, terminology, and style.", "\n",
    "* Do NOT introduce new facts not already present in the note or selection.", "\n">>
  \o (IF endpoint = "supabase"
      THEN <<"* Keep the same language as the selection (unless the action explicitly changes tone/style).", "\n",
             "* Keep roughly the same length unless the action calls for expansion or condensation.">>
      ELSE <<"* Keep the same language as the selection (unless the action changes tone/style).", "\n",
             "* Keep roughly the same length unless the action calls for expansion/condensation.">>)

ValidActions ==
  {"rewrite", "shorter", "clearer", "fix", "tone", "expand", "bullets", "example"}

\* The names every object literal inherits from Object.prototype.
InheritedNames == {"constructor", "toString", "valueOf", "hasOwnProperty"}

\* The own text of ACTION_INSTRUCTIONS[name], for the names it has.
InstructionText(name) ==
  CASE name = "rewrite" ->
         <<"ACTION - Rewrite: improve flow and readability. Keep meaning identical.",
           "\n">> \o SCHEMA_3
    [] name = "shorter" ->
         <<"ACTION - Shorter: condense the selection, remove redundancy.",
           "\n">> \o SCHEMA_3
    [] name = "clearer" ->
         <<"ACTION - Clearer: simplify sentence structure, reduce jargon.",
           "\n">> \o SCHEMA_3
    [] name = "fix" ->
         <<"ACTION - Fix: correct grammar, spelling, and punctuation.",
           "\n">> \o SCHEMA_3
    [] name = "expand" ->
         <<"ACTION - Expand: elaborate slightly using ONLY ideas already present.",
           "\n">> \o SCHEMA_2
    [] name = "bullets" ->
         <<"ACTION - Bullets: convert the selection to a bullet list.",
           "\n">> \o SCHEMA_2
    [] name = "example" ->
         <<"ACTION - Example: add a short, generic illustrative example.",
           "\n">> \o SCHEMA_3
    [] OTHER -> <<>>

\* ACTION_INSTRUCTIONS[action]: index.ts has no tone member, ai-edit.js has an
\* empty one; any other name resolves along the prototype chain.
ACTION_INSTRUCTIONS(endpoint, action) ==
  IF action.t # "str" \/ Len(action.s) # 1 THEN Undef
  ELSE LET name == action.s[1]
       IN IF name = "tone"
          THEN (IF endpoint = "api" THEN Str(<<>>) ELSE Undef)
          ELSE IF name \in ValidActions THEN Str(InstructionText(name))
          ELSE IF name \in InheritedNames THEN Fn(name)
          ELSE Undef

\* buildProfileContext of ai-edit.js.
RECURSIVE JoinWith(_, _)
JoinWith(items, sep) ==
  IF items = <<>> THEN <<>>
  ELSE (IF IsNullish(Head(items)) THEN <<>> ELSE ToStr(Head(items)))
       \o (IF Len(items) > 1 THEN sep ELSE <<>>)
       \o JoinWith(Tail(items), sep)

ProfileLines(userProfile) ==
  LET tone == Get(userProfile, <<"tone">>)
      audience == Get(userProfile, <<"audience">>)
      intent == Get(userProfile, <<"intent">>)
      languages == Get(userProfile, <<"languages">>)
      notes == Get(userProfile, <<"style_notes">>)
  IN (IF Truthy(tone)
      THEN << <<"* Preferred tone: ">> \o ToStr(tone) >> ELSE <<>>)
  \o (IF Truthy(audience)
      THEN << <<"* Target audience: ">> \o ToStr(audience) >> ELSE <<>>)
  \o (IF Truthy(intent)
      THEN << <<"* Writing intent: ">> \o ToStr(intent) >> ELSE <<>>)
  \o (IF languages.t = "arr" /\ Len(languages.items) > 0
      THEN << <<"* Languages: ">> \o JoinWith(languages.items, <<", ">>) >>
      ELSE <<>>)
  \o (IF notes.t = "str" /\ Trim(notes.s) # <<>>
      THEN << <<"* Style notes: ">> \o Trim(notes.s) >> ELSE <<>>)

RECURSIVE JoinLines(_)
JoinLines(lines) ==
  IF lines = <<>> THEN <<>>
  ELSE Head(lines) \o (IF Len(lines) > 1 THEN <<"\n">> ELSE <<>>)
       \o JoinLines(Tail(lines))

\* A variant that writes the header whatever the lines.
buildProfileContext_AlwaysHeader(userProfile) ==
  IF ~Truthy(userProfile) THEN <<>>
  ELSE <<"\n", "\n",
         "AUTHOR PROFILE (adapt your output to match these preferences):", "\n">>
       \o JoinLines(ProfileLines(userProfile))

buildProfileContext(userProfile) ==
  IF ~Truthy(userProfile) THEN <<>>
  ELSE IF ProfileLines(userProfile) = <<>> THEN <<>>
  ELSE <<"\n", "\n",
         "AUTHOR PROFILE (adapt your output to match these preferences):", "\n">>
       \o JoinLines(ProfileLines(userProfile))

\* buildProfileContext throws a TypeError on languages that is a non-empty
\* string (no join) and on style_notes that is truthy and no string (no trim).
ProfileThrows(userProfile) ==
  /\ Truthy(userProfile)
  /\ \/ /\ Get(userProfile, <<"languages">>).t = "str"
        /\ Len(Get(userProfile, <<"languages">>).s) > 0
     \/ /\ Truthy(Get(userProfile, <<"style_notes">>))
        /\ Get(userProfile, <<"style_notes">>).t # "str"

\* The tone-specific instruction both buildSystemPrompt write out.
ToneInstruction(tone) ==
  <<"ACTION - Tone (">> \o ToStr(tone) \o <<"): rewrite to match this tone: ">>
  \o ToStr(tone) \o <<". Keep meaning identical. Do not add new facts.", "\n">>
  \o SCHEMA_3

\* A variant that writes the tone instruction whenever a tone value is given.
buildSystemPrompt_ToneAlways(endpoint, action, tone, userProfile) ==
  BASE_SYSTEM(endpoint)
  \o (IF endpoint = "api" THEN buildProfileContext(userProfile) ELSE <<>>)
  \o <<"\n", "\n">>
  \o (IF Truthy(tone) THEN ToneInstruction(tone)
      ELSE ToStr(OrElse(ACTION_INSTRUCTIONS(endpoint, action),
                        ACTION_INSTRUCTIONS(endpoint, Str(<<"rewrite">>)))))

\* A variant that writes the profile block after the action instruction.
buildSystemPrompt_ProfileLast(endpoint, action, tone, userProfile) ==
  BASE_SYSTEM(endpoint) \o <<"\n", "\n">>
  \o (IF action = Str(<<"tone">>) /\ Truthy(tone) THEN ToneInstruction(tone)
      ELSE ToStr(OrElse(ACTION_INSTRUCTIONS(endpoint, action),
                        ACTION_INSTRUCTIONS(endpoint, Str(<<"rewrite">>)))))
  \o (IF endpoint = "api" THEN buildProfileContext(userProfile) ELSE <<>>)

\* buildSystemPrompt: index.ts (action, tone), with ?? as the fallback;
\* ai-edit.js (action, tone, userProfile), with || as the fallback.
buildSystemPrompt(endpoint, action, tone, userProfile) ==
  LET profileCtx == IF endpoint = "api" THEN buildProfileContext(userProfile)
                    ELSE <<>>
      found == ACTION_INSTRUCTIONS(endpoint, action)
      rewrite == ACTION_INSTRUCTIONS(endpoint, Str(<<"rewrite">>))
      instruction == IF endpoint = "api" THEN OrElse(found, rewrite)
                     ELSE Coalesce(found, rewrite)
  IN IF action = Str(<<"tone">>) /\ Truthy(tone)
     THEN BASE_SYSTEM(endpoint) \o profileCtx \o <<"\n", "\n">>
          \o ToneInstruction(tone)
     ELSE BASE_SYSTEM(endpoint) \o profileCtx \o <<"\n", "\n">>
          \o ToStr(instruction)

\* A variant that replaces only what is absent, ?? in place of ||.
buildUserMessage_Nullish(noteTitle, noteContent, selectedText, before, after, action, tone) ==
  JoinLines(<< <<"TITLE:">>,
               ToStr(Coalesce(noteTitle, Str(<<"(untitled)">>))),
               <<>>,
               <<"FULL NOTE:">>,
               ToStr(Coalesce(noteContent, Str(<<"(empty)">>))),
               <<>>,
               <<"SELECTION:">>,
               ToStr(selectedText),
               <<>>,
               <<"SURROUNDING CONTEXT:">>,
               <<"BEFORE:">>,
               ToStr(Coalesce(before, Str(<<"(start of note)">>))),
               <<"AFTER:">>,
               ToStr(Coalesce(after, Str(<<"(end of note)">>))),
               <<>>,
               <<"ACTION:">>,
               ToStr(action)
                 \o (IF Truthy(tone)
                     THEN <<" (tone: ">> \o ToStr(tone) \o <<")">> ELSE <<>>) >>)

\* buildUserMessage: the lines joined by "\n".
buildUserMessage(noteTitle, noteContent, selectedText, before, after, action, tone) ==
  JoinLines(<< <<"TITLE:">>,
               ToStr(OrElse(noteTitle, Str(<<"(untitled)">>))),
               <<>>,
               <<"FULL NOTE:">>,
               ToStr(OrElse(noteContent, Str(<<"(empty)">>))),
               <<>>,
               <<"SELECTION:">>,
               ToStr(selectedText),
               <<>>,
               <<"SURROUNDING CONTEXT:">>,
               <<"BEFORE:">>,
               ToStr(OrElse(before, Str(<<"(start of note)">>))),
               <<"AFTER:">>,
               ToStr(OrElse(after, Str(<<"(end of note)">>))),
               <<>>,
               <<"ACTION:">>,
               ToStr(action)
                 \o (IF Truthy(tone)
                     THEN <<" (tone: ">> \o ToStr(tone) \o <<")">> ELSE <<>>) >>)

\* edit.js: SCHEMA_HINT, and the same written out for two alternatives in the
\* expand and bullets prompts.
EditSchema(n) ==
  <<"Return ONLY valid JSON, no prose, no markdown fences.", "\n",
    "Schema: ", "{", QUOTE, "alternatives", QUOTE, ":", "[">>
  \o SchemaShape(1, n) \o <<"]", "}">>

SCHEMA_HINT == EditSchema(3)

EditPromptNames == {"rewrite", "shorter", "clearer", "fix", "expand", "bullets"}

\* The members of SYSTEM_PROMPTS of edit.js.
EditPromptText(name) ==
  CASE name = "rewrite" ->
         <<"You are a professional editor.", "\n",
           "Rewrite the text to improve flow and readability.", "\n",
           "Keep meaning identical and language unchanged.", "\n",
           "Return ", "3", " alternatives.", "\n">> \o SCHEMA_HINT
    [] name = "shorter" ->
         <<"You are a professional editor.", "\n",
           "Condense the text while preserving meaning. Remove redundancy. Keep tone similar.", "\n",
           "Return ", "3", " alternatives.", "\n">> \o SCHEMA_HINT
    [] name = "clearer" ->
         <<"You are a professional editor.", "\n",
           "Improve clarity and structure. Prefer simpler sentence construction.", "\n",
           "Avoid jargon where possible without changing meaning.", "\n",
           "Return ", "3", " alternatives.", "\n">> \o SCHEMA_HINT
    [] name = "fix" ->
         <<"You are a copy editor.", "\n",
           "Fix grammar, spelling, punctuation, and small style issues.", "\n",
           "Do not change tone or meaning.", "\n",
           "Return ", "3", " alternatives",
           " (Option 1 = minimal fix; Options 2-3 = slightly improved but still faithful).",
           "\n">> \o SCHEMA_HINT
    [] name = "expand" ->
         <<"You are a professional editor.", "\n",
           "Add detail ONLY by elaborating existing ideas - do not introduce new facts.", "\n",
           "Return ", "2", " alternatives.", "\n">> \o EditSchema(2)
    [] name = "bullets" ->
         <<"You are a professional editor.", "\n",
           "Preserve all content but format as a concise bullet list using \"* \" prefix for each item.", "\n",
           "Return ", "2", " alternatives.", "\n">> \o EditSchema(2)
    [] OTHER -> <<>>

\* SYSTEM_PROMPTS[action] of edit.js; a key that is not a string is converted
\* to one, and any other name resolves along the prototype chain.
SYSTEM_PROMPTS(action) ==
  IF Len(ToStr(action)) # 1 THEN Undef
  ELSE IF ToStr(action)[1] \in EditPromptNames
    THEN Str(EditPromptText(ToStr(action)[1]))
  ELSE IF ToStr(action)[1] \in InheritedNames THEN Fn(ToStr(action)[1])
  ELSE Undef

\* tonePrompt of edit.js.
tonePrompt(tone) ==
  <<"You are a professional editor.", "\n",
    "Rewrite the text to match this tone: ">> \o ToStr(tone) \o <<".", "\n",
    "Keep meaning identical. Do not add new facts. Language stays the same.", "\n",
    "Return ", "3", " alternatives.", "\n">> \o SCHEMA_HINT

\* systemPrompt of edit.js, a JavaScript value.
EditSystemPrompt(action, tone) ==
  IF action = Str(<<"tone">>) /\ Truthy(tone) THEN Str(tonePrompt(tone))
  ELSE SYSTEM_PROMPTS(action)

\* getTemperature, in tenths.
getTemperature(action) ==
  IF action \in {Str(<<"tone">>), Str(<<"rewrite">>), Str(<<"example">>)}
  THEN 3 ELSE 2

\* ------------------------------------------------------------ responses
NoAlts == <<>>

\* No response written yet.
NoResponse ==
  [status |-> 0, kind |-> "none", error |-> <<>>, hasRaw |-> FALSE,
   raw |-> <<>>, alternatives |-> NoAlts, extra |-> <<>>, cors |-> FALSE]

\* A JSON response {error: message}; jsonRes of index.ts adds the CORS
\* headers, jsonError of ai-edit.js has none.
ErrorResponse(endpoint, message, status) ==
  [NoResponse EXCEPT !.status = status, !.kind = "error", !.error = message,
                     !.cors = (endpoint = "supabase")]

\* new Response(message, {status}) of edit.js: a plain text, no JSON.
TextResponse(message, status) ==
  [NoResponse EXCEPT !.status = status, !.kind = "text", !.error = message]

\* A variant that reports the text the parser saw, fences stripped.
ParseFailedResponse_Cleaned(endpoint, raw) ==
  [ErrorResponse(endpoint, <<"parse_failed">>, 200) EXCEPT
     !.hasRaw = TRUE, !.raw = CleanText(raw)]

\* {error: "parse_failed", raw}
ParseFailedResponse(endpoint, raw) ==
  [ErrorResponse(endpoint, <<"parse_failed">>, 200) EXCEPT
     !.hasRaw = TRUE, !.raw = raw]

\* {alternatives}; ai-edit.js sends the parsed object back with its
\* alternatives replaced, so with its other members too.
SuccessResponse(endpoint, alternatives, extra) ==
  [NoResponse EXCEPT !.status = 200, !.kind = "alternatives",
                     !.alternatives = alternatives, !.extra = extra,
                     !.cors = (endpoint = "supabase")]

\* A variant of the last-resort catch that sets no CORS headers.
CaughtResponse_NoCors(message) ==
  [ErrorResponse("supabase", message, 500) EXCEPT !.cors = FALSE]

\* The last-resort catch of index.ts: {error: String(err)}, status 500.
CaughtResponse(message) == ErrorResponse("supabase", message, 500)

\* A variant that repairs: when the slice does not parse, it tries the slice
\* that ends at the closing brace before the last.
SliceAndParse_Repair(clean) ==
  IF IndexOf(clean, "{") = 0 \/ LastIndexOf(clean, "}") = 0 THEN Thrown
  ELSE IF JsonParse(SubSeq(clean, IndexOf(clean, "{"), LastIndexOf(clean, "}"))).ok
  THEN JsonParse(SubSeq(clean, IndexOf(clean, "{"), LastIndexOf(clean, "}")))
  ELSE JsonParse(SubSeq(clean, IndexOf(clean, "{"),
                        LastIndexOf(SubSeq(clean, 1, LastIndexOf(clean, "}") - 1), "}")))

\* A variant that parses the whole of the cleaned text, sliced or not.
SliceAndParse_Whole(clean) == JsonParse(clean)

\* ------------------------------------------------------------ recovery
\* parseAlternatives of index.ts, from `clean` on: the slice from the first
\* "{" to the last "}", parsed.
SliceAndParse(clean) ==
  IF IndexOf(clean, "{") = 0 \/ LastIndexOf(clean, "}") = 0 THEN Thrown
  ELSE JsonParse(SubSeq(clean, IndexOf(clean, "{"), LastIndexOf(clean, "}")))

\* parseAlternatives of index.ts.
parseAlternativesTs(raw) == SliceAndParse(CleanText(raw))

\* The schema check: !parsed.alternatives || !Array.isArray(parsed.alternatives)
BadSchema(parsed) ==
  \/ ~Truthy(Get(parsed, <<"alternatives">>))
  \/ ~IsArray(Get(parsed, <<"alternatives">>))

\* parseAlternatives of ai-edit.js: the same, then the schema check, which
\* throws as a parse error does.
SchemaChecked(parsed) ==
  IF ~parsed.ok THEN Thrown
  ELSE IF BadSchema(parsed.val) THEN Thrown
  ELSE parsed

parseAlternativesJs(raw) == SchemaChecked(parseAlternativesTs(raw))

\* A variant that counts from zero.
OptionLabel_ZeroBased(n) == <<"Option", " ">> \o NumToStr(n - 1)

\* `Option ${i + 1}`, i the 0-based index: n is the 1-based position.
OptionLabel(n) == <<"Option", " ">> \o NumToStr(n)

\* Reading a property of null or undefined throws a TypeError.
ThrowsOnRead(items) == \E i \in 1..Len(items) : IsNullish(items[i])

NonEmptyText(alt) == Len(Trim(alt.text.s)) > 0

\* The map of index.ts: label and text coerced with String(), absent ones
\* defaulted with ??.
MapTs(items) ==
  [i \in 1..Len(items) |->
     [label |-> Str(ToStr(Coalesce(Get(items[i], <<"label">>),
                                   Str(OptionLabel(i))))),
      text |-> Str(ToStr(Coalesce(Get(items[i], <<"text">>), Str(<<>>))))]]

\* A variant that drops the entries with blank text first and numbers what
\* is left.
NormaliseTs_FilterFirst(items) ==
  LET HasText(e) ==
        Len(Trim(ToStr(Coalesce(Get(e, <<"text">>), Str(<<>>))))) > 0
  IN IF ThrowsOnRead(items) THEN [threw |-> TRUE, alts |-> NoAlts]
     ELSE [threw |-> FALSE, alts |-> MapTs(SelectSeq(items, HasText))]

\* .map(...).filter(...) of index.ts: entries with blank text dropped.
NormaliseTs(items) ==
  IF ThrowsOnRead(items) THEN [threw |-> TRUE, alts |-> NoAlts]
  ELSE [threw |-> FALSE, alts |-> SelectSeq(MapTs(items), NonEmptyText)]

\* A variant that names every entry by its position, labelled or not.
MapJs_Renumber(items) ==
  [i \in 1..Len(items) |->
     [label |-> Str(OptionLabel(i)),
      text |-> OrElse(Get(items[i], <<"text">>), Str(<<>>))]]

\* The map of ai-edit.js: falsy label and text defaulted with ||, nothing
\* coerced.
MapJs(items) ==
  [i \in 1..Len(items) |->
     [label |-> OrElse(Get(items[i], <<"label">>), Str(OptionLabel(i))),
      text |-> OrElse(Get(items[i], <<"text">>), Str(<<>>))]]

\* The filter of ai-edit.js: alt.text.trim() throws on a text that is not a
\* string.
FilterJs(mapped) ==
  IF \E i \in 1..Len(mapped) : mapped[i].text.t # "str"
  THEN [threw |-> TRUE, alts |-> NoAlts]
  ELSE [threw |-> FALSE, alts |-> SelectSeq(mapped, NonEmptyText)]

\* .map(...).filter(...) of ai-edit.js.
NormaliseJs(items) ==
  IF ThrowsOnRead(items) THEN [threw |-> TRUE, alts |-> NoAlts]
  ELSE FilterJs(MapJs(items))

\* The members of a parsed object other than alternatives.
OtherMembers(o) ==
  LET NotAlternatives(m) == m[1] # <<"alternatives">>
  IN SelectSeq(o.members, NotAlternatives)

\* A variant that takes more than three alternatives for a schema failure.
AnswerTs_AtMostThree(normal) ==
  IF normal.threw
    THEN CaughtResponse(<<"TypeError: Cannot read properties of null">>)
  ELSE IF Len(normal.alts) = 0
    THEN ErrorResponse("supabase", <<"empty_alternatives">>, 200)
  ELSE IF Len(normal.alts) > 3
    THEN ErrorResponse("supabase", <<"bad_schema">>, 200)
  ELSE SuccessResponse("supabase", normal.alts, <<>>)

\* index.ts after the normalisation: the last-resort catch answers when it
\* threw.
AnswerTs(normal) ==
  IF normal.threw
    THEN CaughtResponse(<<"TypeError: Cannot read properties of null">>)
  ELSE IF Len(normal.alts) = 0
    THEN ErrorResponse("supabase", <<"empty_alternatives">>, 200)
  ELSE SuccessResponse("supabase", normal.alts, <<>>)

\* index.ts after parseAlternatives.
RespondTs(parsed, raw) ==
  IF ~parsed.ok THEN ParseFailedResponse("supabase", raw)
  ELSE IF BadSchema(parsed.val)
    THEN ErrorResponse("supabase", <<"bad_schema">>, 200)
  ELSE AnswerTs(NormaliseTs(Get(parsed.val, <<"alternatives">>).items))

\* index.ts from "Parse response" to the end.
RecoverTs(raw) == RespondTs(parseAlternativesTs(raw), raw)

\* ai-edit.js after the normalisation; kind "none" stands for an exception
\* that leaves the handler, which has no catch around this part.
AnswerJs(normal, extra) ==
  IF normal.threw THEN NoResponse
  ELSE IF Len(normal.alts) = 0
    THEN ErrorResponse("api", <<"bad_schema">>, 200)
  ELSE SuccessResponse("api", normal.alts, extra)

\* ai-edit.js after parseAlternatives.
RespondJs(result, raw) ==
  IF ~result.ok THEN ParseFailedResponse("api", raw)
  ELSE AnswerJs(NormaliseJs(Get(result.val, <<"alternatives">>).items),
                OtherMembers(result.val))

\* ai-edit.js from "Parse response" to the end.
RecoverJs(raw) == RespondJs(parseAlternativesJs(raw), raw)

\* edit.js: raw.replace(/<fence>json[\s\S]*?<fence>|<fence>[\s\S]*?<fence>/g,
\* s => s.replace(/<fence>json|<fence>/g, "").trim()): one pass, each match
\* from a fence to the next one.
RECURSIVE StripEditFences(_)
StripEditFences(s) ==
  IF IndexOf(s, FENCE) = 0 \/ IndexFrom(s, FENCE, IndexOf(s, FENCE) + 1) = 0
  THEN s
  ELSE SubSeq(s, 1, IndexOf(s, FENCE) - 1)
       \o Trim(RemoveJsonMarkers(
            SubSeq(s, IndexOf(s, FENCE),
                   IndexFrom(s, FENCE, IndexOf(s, FENCE) + 1))))
       \o StripEditFences(
            SubSeq(s, IndexFrom(s, FENCE, IndexOf(s, FENCE) + 1) + 1, Len(s)))

\* JSON.parse(jsonStart >= 0 ? clean.slice(jsonStart, jsonEnd + 1) : clean)
EditParse(clean) ==
  IF IndexOf(clean, "{") # 0
  THEN JsonParse(SubSeq(clean, IndexOf(clean, "{"), LastIndexOf(clean, "}")))
  ELSE JsonParse(clean)

\* The entries of the parsed array as edit.js sends them back, untouched: the
\* label and the text each has.
EntriesAsSent(items) ==
  [i \in 1..Len(items) |->
     [label |-> Get(items[i], <<"label">>), text |-> Get(items[i], <<"text">>)]]

\* edit.js after the parse: result.alternatives throws on null (no catch
\* there), fails the schema check on anything without the array.
RespondEdit(result, raw) ==
  IF ~result.ok THEN ParseFailedResponse("edit", raw)
  ELSE IF result.val.t = "null" THEN NoResponse
  ELSE IF BadSchema(result.val) THEN ErrorResponse("edit", <<"bad_schema">>, 200)
  ELSE SuccessResponse("edit",
                       EntriesAsSent(Get(result.val, <<"alternatives">>).items),
                       OtherMembers(result.val))

\* edit.js from the parse to the end.
RecoverEdit(raw) == RespondEdit(EditParse(Trim(StripEditFences(raw))), raw)

Recover(endpoint, raw) ==
  CASE endpoint = "supabase" -> RecoverTs(raw)
    [] endpoint = "edit" -> RecoverEdit(raw)
    [] OTHER -> RecoverJs(raw)

\* ------------------------------------------------------------ requests
\* A request: the endpoint it is sent to, its method, whether the
\* ANTHROPIC_API_KEY secret is set, what req.json() gives ("invalid": it
\* throws; "null": the JSON value null; "object": an object with the fields
\* below, undefined where the body has no such member).  before and after are
\* the members of selectionContext for ai-edit.js.
Request(endpoint, method, hasKey, body, action, tone, selectedText, ctx, userProfile) ==
  [endpoint |-> endpoint, method |-> method, hasKey |-> hasKey, body |-> body,
   action |-> action, tone |-> tone, selectedText |-> selectedText,
   noteTitle |-> ctx[1], noteContent |-> ctx[2], before |-> ctx[3],
   after |-> ctx[4], userProfile |-> userProfile]

\* validActions.includes(action)
IsValidAction(action) ==
  action.t = "str" /\ Len(action.s) = 1 /\ action.s[1] \in ValidActions

\* selectedTrimmed of index.ts: String(selectedText ?? "").trim()
SelectedTrimmedTs(selectedText) == Trim(ToStr(Coalesce(selectedText, Str(<<>>))))

\* What the handler does with a request before "Build prompts": verdict
\* "respond" with the response, "throw" (an exception leaves the handler),
\* or "pass".  index.ts: every throw is caught by the last-resort catch.
Respond(r) == [verdict |-> "respond", resp |-> r]
Pass == [verdict |-> "pass", resp |-> NoResponse]
Throw == [verdict |-> "throw", resp |-> NoResponse]

ValidateTs(r) ==
  IF r.method # "POST"
    THEN Respond(ErrorResponse("supabase", <<"Method not allowed">>, 405))
  ELSE IF ~r.hasKey
    THEN Respond(ErrorResponse("supabase", <<"API key not configured">>, 500))
  ELSE IF r.body = "invalid"
    THEN Respond(ErrorResponse("supabase", <<"Invalid JSON body">>, 400))
  ELSE IF r.body = "null"
    THEN Respond(CaughtResponse(<<"TypeError: Cannot destructure null">>))
  ELSE IF ~Truthy(r.action) \/ r.action.t # "str"
    THEN Respond(ErrorResponse("supabase",
                               <<"Missing or invalid ", QUOTE, "action", QUOTE>>, 400))
  ELSE IF SelectedTrimmedTs(r.selectedText) = <<>>
    THEN Respond(ErrorResponse("supabase",
                               <<"Missing or empty ", QUOTE, "selectedText", QUOTE>>, 400))
  ELSE IF ~IsValidAction(r.action)
    THEN Respond(ErrorResponse("supabase", <<"Unknown action: ">> \o r.action.s, 400))
  ELSE IF r.action = Str(<<"tone">>) /\ ~Truthy(r.tone)
    THEN Respond(ErrorResponse("supabase",
           <<QUOTE, "tone", QUOTE, " value is required when action is ",
             QUOTE, "tone", QUOTE>>, 400))
  ELSE Pass

ValidateJs(r) ==
  IF r.method # "POST"
    THEN Respond(ErrorResponse("api", <<"Method not allowed">>, 405))
  ELSE IF ~r.hasKey
    THEN Respond(ErrorResponse("api", <<"API key not configured">>, 500))
  ELSE IF r.body = "invalid"
    THEN Respond(ErrorResponse("api", <<"Invalid JSON body">>, 400))
  ELSE IF r.body = "null"
    THEN Throw
  ELSE IF ~Truthy(r.action) \/ r.action.t # "str"
    THEN Respond(ErrorResponse("api",
                               <<"Missing or invalid ", QUOTE, "action", QUOTE>>, 400))
  ELSE IF ~Truthy(r.selectedText)
    THEN Respond(ErrorResponse("api",
                               <<"Missing or empty ", QUOTE, "selectedText", QUOTE>>, 400))
  ELSE IF r.selectedText.t # "str"
    THEN Throw
  ELSE IF Trim(r.selectedText.s) = <<>>
    THEN Respond(ErrorResponse("api",
                               <<"Missing or empty ", QUOTE, "selectedText", QUOTE>>, 400))
  ELSE IF ~IsValidAction(r.action)
    THEN Respond(ErrorResponse("api", <<"Unknown action: ">> \o r.action.s, 400))
  ELSE IF r.action = Str(<<"tone">>) /\ ~Truthy(r.tone)
    THEN Respond(ErrorResponse("api",
           <<QUOTE, "tone", QUOTE, " value required when action is ",
             QUOTE, "tone", QUOTE>>, 400))
  ELSE Pass

\* edit.js, its text field carried as selectedText: the destructuring is
\* inside the try, the unknown-action check is the lookup of the prompt.
ValidateEdit(r) ==
  IF r.method # "POST" THEN Respond(TextResponse(<<"Method not allowed">>, 405))
  ELSE IF ~r.hasKey THEN Respond(TextResponse(<<"API key not configured">>, 500))
  ELSE IF r.body \in {"invalid", "null"}
    THEN Respond(TextResponse(<<"Invalid JSON">>, 400))
  ELSE IF ~Truthy(r.action) \/ ~Truthy(r.selectedText)
    THEN Respond(TextResponse(<<"Missing action or text">>, 400))
  ELSE IF r.selectedText.t # "str" THEN Throw
  ELSE IF Trim(r.selectedText.s) = <<>>
    THEN Respond(TextResponse(<<"Missing action or text">>, 400))
  ELSE IF ~Truthy(EditSystemPrompt(r.action, r.tone))
    THEN Respond(TextResponse(<<"Unknown action">>, 400))
  ELSE Pass

Validation(r) ==
  CASE r.endpoint = "supabase" -> ValidateTs(r)
    [] r.endpoint = "edit" -> ValidateEdit(r)
    [] OTHER -> ValidateJs(r)

\* The selectedText handed to buildUserMessage.
SelectedTrimmed(r) ==
  IF r.endpoint = "supabase" THEN SelectedTrimmedTs(r.selectedText)
  ELSE Trim(r.selectedText.s)

\* ------------------------------------------------------------ compilation
\* JSON.stringify leaves out a member whose value is a function: edit.js then
\* sends no system field.
SentSystem(v) == IF v.t = "str" THEN v.s ELSE <<"(no system field)">>

\* The system instructions the handler of request r compiles.
SystemFor(r) ==
  IF r.endpoint = "edit" THEN SentSystem(EditSystemPrompt(r.action, r.tone))
  ELSE buildSystemPrompt(r.endpoint, r.action, r.tone, r.userProfile)

\* String(x || "") of the index.ts handler.
StringOrEmpty(x) == Str(ToStr(OrElse(x, Str(<<>>))))

\* The user message: 'Text to edit:\n' + text.trim() in edit.js.
UserFor(r) ==
  IF r.endpoint = "edit" THEN <<"Text to edit:", "\n">> \o Trim(r.selectedText.s)
  ELSE IF r.endpoint = "supabase"
  THEN buildUserMessage(StringOrEmpty(r.noteTitle), StringOrEmpty(r.noteContent),
                        Str(SelectedTrimmed(r)), StringOrEmpty(r.before),
                        StringOrEmpty(r.after), r.action, r.tone)
  ELSE buildUserMessage(r.noteTitle, r.noteContent, Str(SelectedTrimmed(r)),
                        r.before, r.after, r.action, r.tone)

\* The compilation throws: only ai-edit.js reads the profile.
CompileThrows(r) == r.endpoint = "api" /\ ProfileThrows(r.userProfile)

\* The temperature in the request body, in tenths: 0.2 whatever the action in
\* edit.js.
TemperatureFor(r) ==
  IF r.endpoint = "edit" THEN 2 ELSE getTemperature(r.action)

\* The answer to a fetch that rejects.
NetworkErrorResponse(r) ==
  IF r.endpoint = "edit" THEN TextResponse(<<"Network error reaching AI">>, 502)
  ELSE ErrorResponse(r.endpoint, <<"Network error reaching AI">>, 502)

\* The answer to a status that is not ok: edit.js leaves the status out.
BackendErrorResponse(r, status) ==
  IF r.endpoint = "edit" THEN TextResponse(<<"AI API error">>, 502)
  ELSE ErrorResponse(r.endpoint, <<"AI API error: ">> \o NumToStr(status), 502)

\* ------------------------------------------------------------ generator
\* What the generator does with the one request sent to it: "neterr" (fetch
\* rejects), "hang" (it never answers), or "http" with a status and, in the
\* body, content[0].text = wrapper around body (hasText FALSE: no such member).
Reply(kind, status, hasText, wrapper, body) ==
  [kind |-> kind, status |-> status, hasText |-> hasText,
   wrapper |-> wrapper, body |-> body]

Wrappers == {"bare", "json", "plain", "lang", "prose", "prosefence"}

Wrap(wrapper, body) ==
  CASE wrapper = "json" -> <<FENCE, JSONTAG, "\n">> \o body \o <<"\n", FENCE>>
    [] wrapper = "plain" -> <<FENCE, "\n">> \o body \o <<"\n", FENCE>>
    [] wrapper = "lang" -> <<FENCE, "js", "\n">> \o body \o <<"\n", FENCE>>
    [] wrapper = "prose" -> <<"Sure!", " ">> \o body \o <<" ", "Hope that helps.">>
    [] wrapper = "prosefence" ->
         <<"Here you go:", "\n", FENCE, JSONTAG, "\n">> \o body
         \o <<"\n", FENCE, "\n", "Enjoy!">>
    [] OTHER -> body

\* content?.[0]?.text of the reply.
ReplyText(g) == IF g.hasText THEN Str(Wrap(g.wrapper, g.body)) ELSE Undef

\* raw: content?.[0]?.text ?? "" in index.ts, || '' in ai-edit.js and edit.js.
RawText(r, g) ==
  IF r.endpoint = "supabase" THEN Coalesce(ReplyText(g), Str(<<>>)).s
  ELSE OrElse(ReplyText(g), Str(<<>>)).s

\* response.ok
IsOk(status) == status >= 200 /\ status <= 299

\* ------------------------------------------------------------ generate-draft.js
\* The texts whose length in characters matters (an article, a pasted text)
\* are kept as runs: n characters, all white space (c = " ") or none of them
\* white space (c = "a").
Run(c, n) == [c |-> c, n |-> n]

\* String.prototype.length
RECURSIVE TextLength(_)
TextLength(t) == IF t = <<>> THEN 0 ELSE Head(t).n + TextLength(Tail(t))

\* String.prototype.trim
RECURSIVE TrimRunsLeft(_)
TrimRunsLeft(t) ==
  IF t # <<>> /\ Head(t).c = " " THEN TrimRunsLeft(Tail(t)) ELSE t

RECURSIVE TrimRunsRight(_)
TrimRunsRight(t) ==
  IF t # <<>> /\ t[Len(t)].c = " "
  THEN TrimRunsRight(SubSeq(t, 1, Len(t) - 1))
  ELSE t

TrimRuns(t) == TrimRunsRight(TrimRunsLeft(t))

\* String.prototype.slice(0, n)
RECURSIVE SliceRuns(_, _)
SliceRuns(t, n) ==
  IF t = <<>> \/ n = 0 THEN <<>>
  ELSE IF Head(t).n <= n
       THEN <<Head(t)>> \o SliceRuns(Tail(t), n - Head(t).n)
       ELSE <<Run(Head(t).c, n)>>

\* The least length of a text that counts as an article.
MinArticleChars == 80

\* The most characters of an article that are kept.
MaxArticleChars == 12000

\* A page is a sequence of pieces: "block" (a script, style, head, nav,
\* footer, header, aside, figure or form element with its content, or a
\* comment), "tag" (any other tag), "text" (n characters, none white space),
\* "space" (n white space characters), "nbsp" and "amp" (an entity).
Piece(kind, n) == [kind |-> kind, n |-> n]

\* The first replacements of extractText: blocks and comments are removed, a
\* tag becomes one space, an entity its character.
RECURSIVE StripMarkup(_)
StripMarkup(html) ==
  IF html = <<>> THEN <<>>
  ELSE (CASE Head(html).kind = "block" -> <<>>
          [] Head(html).kind = "tag" -> <<Run(" ", 1)>>
          [] Head(html).kind = "nbsp" -> <<Run(" ", 1)>>
          [] Head(html).kind = "amp" -> <<Run("a", 1)>>
          [] Head(html).kind = "space" -> <<Run(" ", Head(html).n)>>
          [] OTHER -> <<Run("a", Head(html).n)>>)
       \o StripMarkup(Tail(html))

\* .replace(/\s+/g, ' '): every stretch of white space becomes one space.
RECURSIVE CollapseSpaces(_)
CollapseSpaces(t) ==
  IF t = <<>> THEN <<>>
  ELSE IF Head(t).c = " "
       THEN <<Run(" ", 1)>> \o CollapseSpaces(TrimRunsLeft(t))
       ELSE <<Head(t)>> \o CollapseSpaces(Tail(t))

\* .slice(0, 12000)
SliceArticle(t) == SliceRuns(t, MaxArticleChars)

\* Op(v), with v computed once: the next call of a chain works on the
\* result of the one before.
Then(v, Op(_)) == CHOOSE r \in {Op(x) : x \in {v}} : TRUE

extractText(html) ==
  Then(Then(Then(StripMarkup(html), CollapseSpaces), TrimRuns), SliceArticle)

Destinations == {"linkedin", "substack", "x", "company"}

\* DEST_INSTRUCTIONS[destination] || DEST_INSTRUCTIONS.linkedin
DEST_INSTRUCTIONS(destination) ==
  CASE destination = "substack" ->
         <<"Crea una entrada de newsletter para Substack en espanol">>
    [] destination = "x" -> <<"Crea un hilo de Twitter/X en espanol">>
    [] destination = "company" ->
         <<"Crea una entrada de blog formal para empresa en espanol">>
    [] OTHER -> <<"Crea un post para LinkedIn en espanol">>

\* No prompt built yet.
NoPrompt == [kind |-> "none", article |-> <<>>, url |-> <<>>, slug |-> <<>>,
             instructions |-> <<>>]

\* buildPrompt: the prompt that quotes the article's text.
buildPrompt(text, destination) ==
  [NoPrompt EXCEPT !.kind = "TEXTO DEL ARTICULO:", !.article = text,
                   !.instructions = DEST_INSTRUCTIONS(destination)]

\* The URL's slug: scheme and domain removed when a slash follows them, the
\* query string and the hash cut off, hyphens and underscores to spaces, path
\* separators to bullets, then trimmed.  A URL is the lexemes scheme, domain,
\* then "/", "-", "_", "?", "#" and words; the URLs drawn are shorter than the
\* 220 characters the slug is cut to.
RECURSIVE SlugLexemes(_)
SlugLexemes(path) ==
  IF path = <<>> \/ Head(path) \in {"?", "#"} THEN <<>>
  ELSE (CASE Head(path) \in {"-", "_"} -> <<" ">>
          [] Head(path) = "/" -> <<" ", ".", " ">>
          [] OTHER -> <<Head(path)>>)
       \o SlugLexemes(Tail(path))

Slug(url) ==
  Trim(SlugLexemes(IF Len(url) >= 3 /\ url[3] = "/"
                   THEN SubSeq(url, 4, Len(url)) ELSE url))

\* buildUrlPrompt: the prompt that has the generator infer the topic from
\* the URL.
buildUrlPrompt(url, destination) ==
  [NoPrompt EXCEPT !.kind = "Contexto inferido de la URL:", !.url = url,
                   !.slug = Slug(url),
                   !.instructions = DEST_INSTRUCTIONS(destination)]

\* A request to generate-draft: body is "object", "null" (the JSON text null)
\* or "invalid" (no JSON); url, destination and articleText are the members
\* of the body.
DraftRequest(method, hasKey, body, url, destination, articleText) ==
  [endpoint |-> "draft", method |-> method, hasKey |-> hasKey, body |-> body,
   url |-> url, destination |-> destination, articleText |-> articleText]

\* url.match(/^https?:\/\//i) of a string.
Schemes == {"http://", "https://", "HTTP://", "HTTPS://"}

\* !url || typeof url !== 'string' || !url.match(/^https?:\/\//i)
UrlRejected(url) ==
  \/ ~Truthy(url)
  \/ url.t # "str"
  \/ Head(url.s) \notin Schemes

\* const { destination = 'linkedin' } = body
DestinationOf(r) ==
  IF r.destination.t = "undef" THEN Str(<<"linkedin">>) ELSE r.destination

\* !['linkedin', 'substack', 'x', 'company'].includes(destination)
DestinationRejected(destination) ==
  ~(destination.t = "str" /\ Len(destination.s) = 1
    /\ destination.s[1] \in Destinations)

\* errRes(msg, status): jsonRes({error: msg}, status), with the CORS headers.
errRes(message, status) ==
  [NoResponse EXCEPT !.status = status, !.kind = "error", !.error = message,
                     !.cors = TRUE]

\* The handler of generate-draft.js up to step 1.
ValidateDraft(r) ==
  IF r.method # "POST"
  THEN Respond(errRes(<<"Method not allowed">>, 405))
  ELSE IF ~r.hasKey
  THEN Respond(errRes(<<"AI not configured on server">>, 503))
  ELSE IF r.body = "invalid"
  THEN Respond(errRes(<<"Invalid JSON body">>, 400))
  ELSE IF r.body = "null" THEN Throw
  ELSE IF UrlRejected(r.url)
  THEN Respond(errRes(<<"A valid URL starting with http:// or https:// is required">>, 400))
  ELSE IF DestinationRejected(DestinationOf(r))
  THEN Respond(errRes(<<"destination must be one of: linkedin, substack, x, company">>, 400))
  ELSE Pass

\* providedText && typeof providedText === 'string'
\*   && providedText.trim().length >= 80
ProvidedUsable(providedText) ==
  /\ Truthy(providedText)
  /\ providedText.t = "str"
  /\ TextLength(TrimRuns(providedText.s)) >= MinArticleChars

\* What the article's site does with the fetch: "neterr" (fetch rejects),
\* "timeout" (no answer within the 12 s of AbortSignal.timeout, so fetch
\* rejects), or "http" with a status and a page; readable FALSE: reading the
\* body rejects.
Site(kind, status, readable, html) ==
  [kind |-> kind, status |-> status, readable |-> readable, html |-> html]

\* articleText after a fetch that resolved with an ok status.
ArticleRead(s) ==
  IF s.readable /\ TextLength(extractText(s.html)) >= MinArticleChars
  THEN Str(extractText(s.html))
  ELSE Null

\* rawText: (aiData.content?.[0]?.text || '').trim(), an opening fence with
\* its json tag and a closing fence removed, trimmed again.
StripDraftFences(s) ==
  LET opened == IF s # <<>> /\ Head(s) = FENCE
                THEN TrimLeft(IF Len(s) >= 2 /\ s[2] = JSONTAG
                              THEN SubSeq(s, 3, Len(s)) ELSE Tail(s))
                ELSE s
  IN IF opened # <<>> /\ opened[Len(opened)] = FENCE
     THEN TrimRight(SubSeq(opened, 1, Len(opened) - 1))
     ELSE opened

DraftRawText(g) == Trim(StripDraftFences(Trim(OrElse(ReplyText(g), Str(<<>>)).s)))

\* jsonRes({title, content}): the two members as trimmed strings.
DraftResponse(result) ==
  [NoResponse EXCEPT
     !.status = 200, !.kind = "draft", !.cors = TRUE,
     !.extra = << <<<<"title">>, Str(Trim(ToStr(Get(result, <<"title">>))))>>,
                  <<<<"content">>, Str(Trim(ToStr(Get(result, <<"content">>))))>> >>]

\* Step 4 on the parsed reply: reading a member of null throws.  The replies
\* drawn are shorter than the 200 characters of rawText the message keeps.
RespondDraft(parsed, rawText) ==
  IF ~parsed.ok
  THEN errRes(<<"No se pudo parsear la respuesta de la IA: ">> \o rawText, 502)
  ELSE IF IsNullish(parsed.val) THEN NoResponse
  ELSE IF ~Truthy(Get(parsed.val, <<"title">>))
          \/ ~Truthy(Get(parsed.val, <<"content">>))
  THEN errRes(<<"La IA devolvio una respuesta incompleta">>, 502)
  ELSE DraftResponse(parsed.val)

RecoverDraft(rawText) == RespondDraft(JsonParse(rawText), rawText)

\* ------------------------------------------------------------ inputs
\* An entry of an alternatives array: an object with the members given
\* (undefined: no such member).
Alt(label, text) ==
  Obj((IF label.t = "undef" THEN <<>> ELSE << <<<<"label">>, label>> >>)
      \o (IF text.t = "undef" THEN <<>> ELSE << <<<<"text">>, text>> >>))

Entries ==
  { Alt(Undef, Str(<<"A">>)),
    Alt(Str(<<"Custom">>), Str(<<"B">>)),
    Alt(Str(<<"Option", " ", "1">>), Str(<<"Hi">>)),
    Alt(Str(<<>>), Str(<<"A">>)),
    Alt(Num(7), Str(<<"A">>)),
    Alt(Undef, Str(<<>>)),
    Alt(Str(<<"Custom">>), Str(<<" ">>)),
    Alt(Str(<<"Custom">>), Undef),
    Alt(Undef, Num(7)),
    Alt(Undef, Str(<<" ", "B", " ">>)),
    Alt(Undef, Str(<<"a", FENCE, "b">>)),
    Null,
    Num(7) }

AltArrays == UNION {[1..n -> Entries] : n \in 0..MaxAlts}

WithAlternatives(v) == Obj(<< <<<<"alternatives">>, v>> >>)

\* The JSON values the generator may mean to send.
Payloads ==
  {WithAlternatives(Arr(a)) : a \in AltArrays}
  \cup { Obj(<<>>),
         WithAlternatives(Str(<<"none">>)),
         WithAlternatives(Null),
         WithAlternatives(Alt(Undef, Str(<<"A">>))),
         Obj(<< <<<<"options">>, Arr(<<Alt(Undef, Str(<<"A">>))>>)>> >>),
         Obj(<< <<<<"note">>, Str(<<"ok">>)>>,
                <<<<"alternatives">>, Arr(<<Alt(Undef, Str(<<"A">>))>>)>> >>) }

\* The example of the specification.
ExampleBody ==
  Stringify(WithAlternatives(Arr(<<Alt(Str(<<"Option", " ", "1">>), Str(<<"Hi">>))>>)))

\* Texts that are no JSON object: prose, nothing, a reply cut short, braces in
\* trailing prose, a closing brace before the opening one, a lone brace, a
\* trailing comma, two objects.
BrokenBodies ==
  { <<"I cannot help with that.">>,
    <<>>,
    ExampleBody \o <<" ", "(see", "}", ")">>,
    <<"}", " ", "{">>,
    <<"{">>,
    <<"}">>,
    <<"{", QUOTE, "alternatives", QUOTE, ":", "[", "]", ",", "}">>,
    ExampleBody \o ExampleBody }
  \cup {SubSeq(ExampleBody, 1, Len(ExampleBody) - k) : k \in 1..MaxCut}

Bodies == {Stringify(p) : p \in Payloads} \cup BrokenBodies

Failures ==
  { Reply("neterr", 0, FALSE, "bare", <<>>),
    Reply("hang", 0, FALSE, "bare", <<>>),
    Reply("http", 503, FALSE, "bare", <<>>),
    Reply("http", 429, TRUE, "bare", <<"rate limited">>),
    Reply("http", 200, FALSE, "bare", <<>>) }

\* Every reply, for the recovery pipeline.
RecoveryReplies ==
  {Reply("http", 200, TRUE, w, b) : w \in Wrappers, b \in Bodies} \cup Failures

\* A few replies of each kind, for the request handling.
HandlerReplies ==
  {Reply("http", 200, TRUE, w, ExampleBody) : w \in {"bare", "json"}}
  \cup {Reply("http", 200, TRUE, "bare", b) :
          b \in { <<"I cannot help with that.">>,
                  Stringify(Obj(<<>>)),
                  Stringify(WithAlternatives(Arr(<<Alt(Undef, Str(<<>>))>>))),
                  Stringify(WithAlternatives(Arr(<<Null>>))) }}
  \cup Failures

NoContext == <<Undef, Undef, Undef, Undef>>
SomeContext ==
  <<Str(<<"Title">>), Str(<<"Note text.">>), Str(<<"before">>), Str(<<"after">>)>>

ActionValues ==
  {Str(<<a>>) : a \in ValidActions}
  \cup {Undef, Num(7), Str(<<>>), Str(<<"unknown">>), Str(<<"constructor">>)}

ToneValues == {Undef, Null, Str(<<>>), Str(<<"Formal">>)}

SelectedValues ==
  {Undef, Str(<<>>), Str(<<" ", "\n">>), Str(<<"Hi">>), Str(<<" ", "Hi", " ">>), Num(7)}

SomeProfile == Obj(<< <<<<"tone">>, Str(<<"warm">>)>> >>)

\* Every request body field by field, and around a plain request the other
\* methods, a missing secret, a body that is no JSON or is null, a note
\* context and a profile.
HandlerRequests ==
  {Request(e, "POST", TRUE, "object", a, t, s, NoContext, Undef) :
     e \in Endpoints, a \in ActionValues, t \in ToneValues, s \in SelectedValues}
  \cup {Request(e, m, k, b, Str(<<a>>), Str(<<"Formal">>), Str(<<"Hi">>), c, p) :
          e \in Endpoints, m \in {"POST", "GET", "OPTIONS"}, k \in BOOLEAN,
          b \in {"object", "invalid", "null"}, a \in {"rewrite", "tone", "nope"},
          c \in {NoContext, SomeContext}, p \in {Undef, SomeProfile}}

RecoveryRequests ==
  {Request(e, m, TRUE, "object", Str(<<"rewrite">>), Undef, Str(<<"Hi">>),
           NoContext, Undef) : e \in Endpoints, m \in {"POST", "OPTIONS"}}

\* Every handler, edit.js included.
AllEndpoints == Endpoints \cup {"edit"}

\* A member of a profile, left out when absent.
Member(key, v) == IF v.t = "undef" THEN <<>> ELSE << <<key, v>> >>

Profile(tone, audience, intent, languages, notes) ==
  Obj(Member(<<"tone">>, tone) \o Member(<<"audience">>, audience)
      \o Member(<<"intent">>, intent) \o Member(<<"languages">>, languages)
      \o Member(<<"style_notes">>, notes))

\* Profiles: every field absent, empty or given; no profile; fields of the
\* wrong type.
Profiles ==
  {Profile(t, a, i, l, n) :
     t \in {Undef, Str(<<>>), Str(<<"warm">>)},
     a \in {Undef, Str(<<>>), Str(<<"developers">>)},
     i \in {Undef, Str(<<"teach">>)},
     l \in {Undef, Arr(<<>>), Arr(<<Str(<<"en">>), Str(<<"fr">>)>>)},
     n \in {Undef, Str(<<" ", "\n">>), Str(<<" ", "short sentences", " ">>)}}
  \cup {Undef, Null,
        Profile(Undef, Undef, Undef, Str(<<"en">>), Undef),
        Profile(Str(<<"warm">>), Undef, Undef, Undef, Num(7))}

\* n alternatives, labelled.
Options(n) ==
  [i \in 1..n |-> Alt(Str(<<"Option", " ">> \o NumToStr(i)),
                      Str(<<"Text", " ">> \o NumToStr(i)))]

\* Replies with 0..MaxCount alternatives, all with a text.
CountReplies ==
  {Reply("http", 200, TRUE, "bare", Stringify(WithAlternatives(Arr(Options(n))))) :
     n \in 0..MaxCount}

\* Every action and a name that is none, with and without a tone value, at
\* every handler; every profile at ai-edit.js; a preflight.
ActionRequests ==
  {Request(e, "POST", TRUE, "object", Str(<<a>>), t, Str(<<"Hi">>), NoContext, Undef) :
     e \in AllEndpoints, a \in ValidActions \cup {"nope"},
     t \in {Undef, Str(<<"Formal">>)}}
  \cup {Request("api", "POST", TRUE, "object", Str(<<a>>), t, Str(<<"Hi">>),
                NoContext, p) :
          a \in {"rewrite", "tone"}, t \in {Str(<<"Formal">>)}, p \in Profiles}
  \cup {Request(e, "OPTIONS", TRUE, "object", Str(<<"rewrite">>), Undef,
                Str(<<"Hi">>), NoContext, Undef) : e \in AllEndpoints}
  \cup {Request("edit", "POST", TRUE, "object", Str(<<a>>), Undef, Str(<<"Hi">>),
                NoContext, Undef) : a \in {"constructor", "toString"}}

VARIABLES
  req,           \* the request being handled
  gen,           \* what the generator does when called
  pc,            \* where the handler is
  calls,         \* the number of fetch calls made to the generator
  systemPrompt,  \* the compiled system instructions, <<>> before compilation
  userMessage,   \* the compiled user message
  temperature,   \* the temperature sent, 0 before the call
  raw,           \* the text read from the generator's reply
  resp,          \* the response written
  peer,          \* a second request being handled at the same time, if any
  site,          \* generate-draft: what the article's site does when fetched
  articleText,   \* generate-draft: the article's text, null while there is none
  prompt         \* generate-draft: the prompt built

vars ==
  <<req, gen, pc, calls, systemPrompt, userMessage, temperature, raw, resp, peer,
    site, articleText, prompt>>

\* ------------------------------------------------------------ handler
\* index.ts 185-187: the OPTIONS preflight, before anything else.
Preflight ==
  /\ pc = "start"
  /\ req.endpoint = "supabase"
  /\ req.method = "OPTIONS"
  /\ resp' = [NoResponse EXCEPT !.status = 200, !.kind = "ok", !.cors = TRUE]
  /\ pc' = "done"
  /\ UNCHANGED <<site, articleText, prompt, peer, req, gen, calls, systemPrompt, userMessage, temperature, raw>>

\* Method, credential, body and field validation.
Validate ==
  /\ pc = "start"
  /\ ~(req.endpoint = "supabase" /\ req.method = "OPTIONS")
  /\ resp' = Validation(req).resp
  /\ pc' = CASE Validation(req).verdict = "respond" -> "done"
             [] Validation(req).verdict = "throw" -> "threw"
             [] OTHER -> "build"
  /\ UNCHANGED <<site, articleText, prompt, peer, req, gen, calls, systemPrompt, userMessage, temperature, raw>>

\* A variant that numbers the user message when another request is under way.
BuildPrompts_Counted ==
  /\ pc = "build"
  /\ systemPrompt' = IF CompileThrows(req) THEN <<>> ELSE SystemFor(req)
  /\ userMessage' = IF CompileThrows(req) THEN <<>>
                    ELSE UserFor(req)
                         \o (IF peer.pc \in {"none", "start"} THEN <<>>
                             ELSE <<"\n", "(request 2)">>)
  /\ pc' = IF CompileThrows(req) THEN "threw" ELSE "call"
  /\ UNCHANGED <<site, articleText, prompt, peer, req, gen, calls, temperature, raw, resp>>

\* "Build prompts".
BuildPrompts ==
  /\ pc = "build"
  /\ systemPrompt' = IF CompileThrows(req) THEN <<>> ELSE SystemFor(req)
  /\ userMessage' = IF CompileThrows(req) THEN <<>> ELSE UserFor(req)
  /\ pc' = IF CompileThrows(req) THEN "threw" ELSE "call"
  /\ UNCHANGED <<site, articleText, prompt, peer, req, gen, calls, temperature, raw, resp>>

\* "Call Anthropic": the fetch is issued and awaited.
CallGenerator ==
  /\ pc = "call"
  /\ calls' = calls + 1
  /\ temperature' = TemperatureFor(req)
  /\ pc' = "awaiting"
  /\ UNCHANGED <<site, articleText, prompt, peer, req, gen, systemPrompt, userMessage, raw, resp>>

\* fetch rejects: the catch answers 502.
FetchRejects ==
  /\ pc = "awaiting"
  /\ gen.kind = "neterr"
  /\ resp' = NetworkErrorResponse(req)
  /\ pc' = "done"
  /\ UNCHANGED <<site, articleText, prompt, peer, req, gen, calls, systemPrompt, userMessage, temperature, raw>>

\* A variant that tries the generator again after an error status.
BackendError_Retries ==
  /\ pc = "awaiting"
  /\ gen.kind = "http"
  /\ ~IsOk(gen.status)
  /\ pc' = "call"
  /\ UNCHANGED <<site, articleText, prompt, peer, req, gen, calls, systemPrompt, userMessage, temperature, raw, resp>>

\* The generator answers with a status that is not ok.
BackendError ==
  /\ pc = "awaiting"
  /\ gen.kind = "http"
  /\ ~IsOk(gen.status)
  /\ resp' = BackendErrorResponse(req, gen.status)
  /\ pc' = "done"
  /\ UNCHANGED <<site, articleText, prompt, peer, req, gen, calls, systemPrompt, userMessage, temperature, raw>>

\* A variant that keeps the reply text in a buffer every request shares.
FetchResolves_SharedBuffer ==
  /\ pc = "awaiting"
  /\ gen.kind = "http"
  /\ IsOk(gen.status)
  /\ raw' = IF peer.pc \in {"parse", "done"} /\ peer.raw # <<>> THEN peer.raw
            ELSE RawText(req, gen)
  /\ pc' = "parse"
  /\ UNCHANGED <<site, articleText, prompt, peer, req, gen, calls, systemPrompt, userMessage, temperature, resp>>

\* The generator answers ok: raw is content?.[0]?.text ?? "" (|| '' in
\* ai-edit.js).
FetchResolves ==
  /\ pc = "awaiting"
  /\ gen.kind = "http"
  /\ IsOk(gen.status)
  /\ raw' = RawText(req, gen)
  /\ pc' = "parse"
  /\ UNCHANGED <<site, articleText, prompt, peer, req, gen, calls, systemPrompt, userMessage, temperature, resp>>

\* "Parse response" to the end of the handler.
ProcessReply ==
  /\ pc = "parse"
  /\ resp' = Recover(req.endpoint, raw)
  /\ pc' = IF resp'.kind = "none" THEN "threw" ELSE "done"
  /\ UNCHANGED <<site, articleText, prompt, peer, req, gen, calls, systemPrompt, userMessage, temperature, raw>>

Next ==
  \/ Preflight
  \/ Validate
  \/ BuildPrompts
  \/ CallGenerator
  \/ FetchRejects
  \/ BackendError
  \/ FetchResolves
  \/ ProcessReply

\* ------------------------------------------------------------ two requests
\* The state of one invocation of a handler: what the handler's variables
\* above hold for the first request, peer holds for the second.
Invocation(r, g) ==
  [req |-> r, gen |-> g, pc |-> "start", calls |-> 0, systemPrompt |-> <<>>,
   userMessage |-> <<>>, temperature |-> 0, raw |-> <<>>, resp |-> NoResponse]

\* No second request.
NoPeer == [pc |-> "none"]

Validated(h, v) ==
  [h EXCEPT !.resp = v.resp,
            !.pc = CASE v.verdict = "respond" -> "done"
                     [] v.verdict = "throw" -> "threw"
                     [] OTHER -> "build"]

Processed(h, r) ==
  [h EXCEPT !.resp = r, !.pc = IF r.kind = "none" THEN "threw" ELSE "done"]

\* The invocation can go on: it has not ended and is not waiting for a
\* generator that never answers.
CanAdvance(h) ==
  \/ h.pc \in {"start", "build", "call", "parse"}
  \/ h.pc = "awaiting" /\ h.gen.kind # "hang"

\* The next step of an invocation: the handler's code from one await to the
\* next, on the invocation's own locals.
Advance(h) ==
  CASE h.pc = "start" ->
         IF h.req.endpoint = "supabase" /\ h.req.method = "OPTIONS"
         THEN [h EXCEPT !.resp = [NoResponse EXCEPT !.status = 200, !.kind = "ok",
                                                   !.cors = TRUE],
                        !.pc = "done"]
         ELSE Validated(h, Validation(h.req))
    [] h.pc = "build" ->
         IF CompileThrows(h.req) THEN [h EXCEPT !.pc = "threw"]
         ELSE [h EXCEPT !.systemPrompt = SystemFor(h.req),
                        !.userMessage = UserFor(h.req),
                        !.pc = "call"]
    [] h.pc = "call" ->
         [h EXCEPT !.calls = h.calls + 1,
                   !.temperature = TemperatureFor(h.req),
                   !.pc = "awaiting"]
    [] h.pc = "awaiting" /\ h.gen.kind = "neterr" ->
         [h EXCEPT !.resp = NetworkErrorResponse(h.req), !.pc = "done"]
    [] h.pc = "awaiting" /\ h.gen.kind = "http" /\ ~IsOk(h.gen.status) ->
         [h EXCEPT !.resp = BackendErrorResponse(h.req, h.gen.status),
                   !.pc = "done"]
    [] h.pc = "awaiting" /\ h.gen.kind = "http" /\ IsOk(h.gen.status) ->
         [h EXCEPT !.raw = RawText(h.req, h.gen), !.pc = "parse"]
    [] h.pc = "parse" -> Processed(h, Recover(h.req.endpoint, h.raw))
    [] OTHER -> h

\* The second request's handler takes a step; the first one's locals are not
\* touched.
PeerStep ==
  /\ peer.pc # "none"
  /\ CanAdvance(peer)
  /\ peer' = Advance(peer)
  /\ UNCHANGED <<req, gen, pc, calls, systemPrompt, userMessage, temperature,
                 raw, resp, site, articleText, prompt>>

NextConcurrent == Next \/ PeerStep

StartHandler ==
  /\ pc = "start"
  /\ calls = 0
  /\ systemPrompt = <<>>
  /\ userMessage = <<>>
  /\ temperature = 0
  /\ raw = <<>>
  /\ resp = NoResponse

\* No article is fetched.
NoSite == [kind |-> "none"]

\* One request, handled alone.
StartAlone == StartHandler /\ peer = NoPeer /\ articleText = Null /\ prompt = NoPrompt

\* The ai-edit and edit handlers fetch no article.
Start == StartAlone /\ site = NoSite

\* Request handling: every request, a few replies.
Init == req \in HandlerRequests /\ gen \in HandlerReplies /\ Start

Spec == Init /\ [][Next]_vars

\* The recovery pipeline: a plain request, every reply.
InitRecovery == req \in RecoveryRequests /\ gen \in RecoveryReplies /\ Start

SpecRecovery == InitRecovery /\ [][Next]_vars

\* The recovery pipeline of every handler, edit.js included: every reply.
InitPipeline ==
  /\ req \in {Request(e, m, TRUE, "object", Str(<<"rewrite">>), Undef, Str(<<"Hi">>),
                      NoContext, Undef) :
                e \in AllEndpoints, m \in {"POST", "OPTIONS"}}
  /\ gen \in RecoveryReplies
  /\ Start

SpecPipeline == InitPipeline /\ [][Next]_vars

\* Every action at every handler, replies of every size.
InitHandlers == req \in ActionRequests /\ gen \in CountReplies \cup Failures /\ Start

SpecHandlers == InitHandlers /\ [][Next]_vars

\* Two requests at a time: a few requests at each handler, two of them the
\* same but for the handler; a few replies.
PairRequests ==
  {Request(e, "POST", TRUE, "object", Str(<<"rewrite">>), Undef, Str(<<"Hi">>),
           SomeContext, SomeProfile) : e \in AllEndpoints}
  \cup { Request("api", "POST", TRUE, "object", Str(<<"tone">>), Str(<<"Formal">>),
                 Str(<<" ", "Hi", " ">>), NoContext, Undef),
         Request("edit", "POST", TRUE, "object", Str(<<"shorter">>), Undef,
                 Str(<<"Hi">>), NoContext, Undef),
         Request("supabase", "POST", TRUE, "object", Str(<<"nope">>), Undef,
                 Str(<<"Hi">>), NoContext, Undef),
         Request("supabase", "OPTIONS", TRUE, "object", Undef, Undef, Undef,
                 NoContext, Undef) }

PairReplies ==
  { Reply("http", 200, TRUE, "json", ExampleBody),
    Reply("http", 200, TRUE, "bare", <<"I cannot help with that.">>),
    Reply("http", 503, FALSE, "bare", <<>>),
    Reply("neterr", 0, FALSE, "bare", <<>>) }

InitConcurrent ==
  /\ req \in PairRequests /\ gen \in PairReplies /\ StartHandler
  /\ site = NoSite /\ articleText = Null /\ prompt = NoPrompt
  /\ peer \in {Invocation(r, g) : r \in PairRequests, g \in PairReplies}

SpecConcurrent == InitConcurrent /\ [][NextConcurrent]_vars

\* ------------------------------------------------------------ generate-draft handler
\* generate-draft.js 162: the OPTIONS preflight.
DraftPreflight ==
  /\ pc = "start"
  /\ req.method = "OPTIONS"
  /\ resp' = [TextResponse(<<"ok">>, 200) EXCEPT !.cors = TRUE]
  /\ pc' = "done"
  /\ UNCHANGED <<req, gen, site, calls, systemPrompt, userMessage, temperature,
                 raw, peer, articleText, prompt>>

\* generate-draft.js 163-180: method, key, body, url, destination.
DraftValidate ==
  /\ pc = "start"
  /\ req.method # "OPTIONS"
  /\ resp' = ValidateDraft(req).resp
  /\ pc' = CASE ValidateDraft(req).verdict = "respond" -> "done"
             [] ValidateDraft(req).verdict = "throw" -> "threw"
             [] OTHER -> "resolve"
  /\ UNCHANGED <<req, gen, site, calls, systemPrompt, userMessage, temperature,
                 raw, peer, articleText, prompt>>

\* 186-187: the caller's text is used, no fetch.
UseProvidedText ==
  /\ pc = "resolve"
  /\ ProvidedUsable(req.articleText)
  /\ articleText' = Str(SliceRuns(TrimRuns(req.articleText.s), MaxArticleChars))
  /\ pc' = "prompt"
  /\ UNCHANGED <<req, gen, site, calls, systemPrompt, userMessage, temperature,
                 raw, resp, peer, prompt>>

\* 191-200: the article is fetched.
FetchArticle ==
  /\ pc = "resolve"
  /\ ~ProvidedUsable(req.articleText)
  /\ pc' = "fetching"
  /\ UNCHANGED <<req, gen, site, calls, systemPrompt, userMessage, temperature,
                 raw, resp, peer, articleText, prompt>>

\* A variant that answers the caller when the article's site refuses.
ArticleNotOk_HardFail ==
  /\ pc = "fetching"
  /\ site.kind = "http"
  /\ ~IsOk(site.status)
  /\ resp' = errRes(<<"Could not fetch the article: ">> \o NumToStr(site.status), 502)
  /\ pc' = "done"
  /\ UNCHANGED <<req, gen, site, calls, systemPrompt, userMessage, temperature,
                 raw, peer, articleText, prompt>>

\* 210: the site answers with a status that is not ok; articleText stays null.
ArticleNotOk ==
  /\ pc = "fetching"
  /\ site.kind = "http"
  /\ ~IsOk(site.status)
  /\ pc' = "prompt"
  /\ UNCHANGED <<req, gen, site, calls, systemPrompt, userMessage, temperature,
                 raw, resp, peer, articleText, prompt>>

\* 211-213: fetch rejects (a network error, or the 12 s are over);
\* articleText stays null.
ArticleFetchRejects ==
  /\ pc = "fetching"
  /\ site.kind \in {"neterr", "timeout"}
  /\ pc' = "prompt"
  /\ UNCHANGED <<req, gen, site, calls, systemPrompt, userMessage, temperature,
                 raw, resp, peer, articleText, prompt>>

\* 202-209: the page is read and its text extracted; a rejected read is
\* caught at 211.
ArticleResolves ==
  /\ pc = "fetching"
  /\ site.kind = "http"
  /\ IsOk(site.status)
  /\ articleText' = ArticleRead(site)
  /\ pc' = "prompt"
  /\ UNCHANGED <<req, gen, site, calls, systemPrompt, userMessage, temperature,
                 raw, resp, peer, prompt>>

\* 217-219: the article-text prompt, or the URL-inference prompt.
DraftBuildPrompt ==
  /\ pc = "prompt"
  /\ prompt' = IF Truthy(articleText)
               THEN buildPrompt(articleText.s, DestinationOf(req).s[1])
               ELSE buildUrlPrompt(req.url.s, DestinationOf(req).s[1])
  /\ pc' = "call"
  /\ UNCHANGED <<req, gen, site, calls, systemPrompt, userMessage, temperature,
                 raw, resp, peer, articleText>>

\* 224-237: the one fetch to the generator.
DraftCallGenerator ==
  /\ pc = "call"
  /\ calls' = calls + 1
  /\ pc' = "awaiting"
  /\ UNCHANGED <<req, gen, site, systemPrompt, userMessage, temperature,
                 raw, resp, peer, articleText, prompt>>

\* 238-240: fetch rejects (a network error, or the 55 s are over).
DraftFetchRejects ==
  /\ pc = "awaiting"
  /\ req.endpoint = "draft"
  /\ gen.kind \in {"neterr", "hang"}
  /\ resp' = errRes(<<"La solicitud a la IA fallo: ",
                      IF gen.kind = "hang"
                      THEN "TimeoutError: The operation was aborted due to timeout"
                      ELSE "TypeError: fetch failed">>, 502)
  /\ pc' = "done"
  /\ UNCHANGED <<req, gen, site, calls, systemPrompt, userMessage, temperature,
                 raw, peer, articleText, prompt>>

\* 242-245: a status that is not ok.
DraftBackendError ==
  /\ pc = "awaiting"
  /\ req.endpoint = "draft"
  /\ gen.kind = "http"
  /\ ~IsOk(gen.status)
  /\ resp' = errRes(<<"AI error ">> \o NumToStr(gen.status) \o <<": ">>
                    \o (IF gen.hasText THEN gen.body ELSE <<>>), 502)
  /\ pc' = "done"
  /\ UNCHANGED <<req, gen, site, calls, systemPrompt, userMessage, temperature,
                 raw, peer, articleText, prompt>>

\* 248-252: the reply's text, fences removed.
DraftFetchResolves ==
  /\ pc = "awaiting"
  /\ req.endpoint = "draft"
  /\ gen.kind = "http"
  /\ IsOk(gen.status)
  /\ raw' = DraftRawText(gen)
  /\ pc' = "parse"
  /\ UNCHANGED <<req, gen, site, calls, systemPrompt, userMessage, temperature,
                 resp, peer, articleText, prompt>>

\* 254-268: the reply is parsed and answered; an exception ends the handler
\* with no response.
DraftProcessReply ==
  /\ pc = "parse"
  /\ req.endpoint = "draft"
  /\ resp' = RecoverDraft(raw)
  /\ pc' = IF RecoverDraft(raw).kind = "none" THEN "threw" ELSE "done"
  /\ UNCHANGED <<req, gen, site, calls, systemPrompt, userMessage, temperature,
                 raw, peer, articleText, prompt>>

NextDraft ==
  \/ DraftPreflight
  \/ DraftValidate
  \/ UseProvidedText
  \/ FetchArticle
  \/ ArticleNotOk
  \/ ArticleFetchRejects
  \/ ArticleResolves
  \/ DraftBuildPrompt
  \/ DraftCallGenerator
  \/ DraftFetchRejects
  \/ DraftBackendError
  \/ DraftFetchResolves
  \/ DraftProcessReply

\* The URLs, destinations and pasted texts of the requests drawn.
DraftUrls ==
  { Str(<<"https://", "example.com", "/", "my", "-", "post", "?", "utm=1">>),
    Str(<<"http://", "linkedin.com", "/", "posts", "/", "a_b">>),
    Str(<<"HTTPS://", "example.com">>),
    Str(<<"ftp://", "example.com", "/", "a">>),
    Str(<<>>), Undef, Num(1) }

DraftDestinations ==
  {Undef, Null, Str(<<"blog">>)} \cup {Str(<<d>>) : d \in Destinations}

ProvidedTexts ==
  { Undef, Num(5), Str(<<>>),
    Str(<<Run(" ", MinArticleChars + 20)>>),
    Str(<<Run("a", MinArticleChars - 1)>>),
    Str(<<Run(" ", 3), Run("a", MinArticleChars), Run(" ", 2)>>),
    Str(<<Run("a", MaxArticleChars), Run(" ", 1), Run("a", 5)>>) }

DraftRequests ==
  {DraftRequest("POST", TRUE, "object", u, d, Undef) :
     u \in DraftUrls, d \in DraftDestinations}
  \cup {DraftRequest("POST", TRUE, "object",
                     Str(<<"http://", "linkedin.com", "/", "posts", "/", "a_b">>),
                     Str(<<"x">>), t) : t \in ProvidedTexts}
  \cup {DraftRequest(m, k, b, Str(<<"https://", "example.com", "/", "a">>), Undef, Undef) :
          m \in {"OPTIONS", "GET", "POST"}, k \in BOOLEAN,
          b \in {"object", "null", "invalid"}}

\* Pages: an article, one character short of an article, exactly the least
\* article (a tag counts as a space), a page of scripts, a page of tags and
\* entities, a page whose outer white space does not count, a page longer
\* than is kept, an empty page.
Pages ==
  { <<Piece("block", 400), Piece("tag", 3), Piece("text", 60), Piece("space", 4),
      Piece("text", 60), Piece("tag", 4)>>,
    <<Piece("text", MinArticleChars - 1)>>,
    <<Piece("text", 40), Piece("tag", 4), Piece("text", MinArticleChars - 41)>>,
    <<Piece("block", 5000), Piece("text", 10)>>,
    <<Piece("tag", 5), Piece("tag", 6), Piece("nbsp", 6), Piece("amp", 5)>>,
    <<Piece("space", 50), Piece("text", 30), Piece("space", 60),
      Piece("text", MinArticleChars - 32), Piece("space", 50)>>,
    <<Piece("text", MaxArticleChars + 1000)>>,
    <<>> }

Sites ==
  { Site("neterr", 0, FALSE, <<>>), Site("timeout", 0, FALSE, <<>>),
    Site("http", 403, TRUE, <<Piece("text", 200)>>),
    Site("http", 500, TRUE, <<>>),
    Site("http", 200, FALSE, <<Piece("text", 200)>>) }
  \cup {Site("http", 200, TRUE, h) : h \in Pages}

DraftBody ==
  Stringify(Obj(<< <<<<"title">>, Str(<<"A", " ", "title">>)>>,
                   <<<<"content">>, Str(<<"<p>", "Hola", "</p>">>)>> >>))

DraftReplies ==
  { Reply("http", 200, TRUE, "bare", DraftBody),
    Reply("http", 200, TRUE, "json", DraftBody),
    Reply("http", 200, TRUE, "bare", <<"Lo siento.">>),
    Reply("http", 200, TRUE, "bare", <<"null">>),
    Reply("http", 200, TRUE, "bare",
          Stringify(Obj(<< <<<<"title">>, Str(<<"A">>)>> >>))),
    Reply("http", 200, FALSE, "bare", <<>>),
    Reply("http", 529, TRUE, "bare", <<"overloaded">>),
    Reply("neterr", 0, FALSE, "bare", <<>>),
    Reply("hang", 0, FALSE, "bare", <<>>) }

InitDraft ==
  /\ req \in DraftRequests /\ gen \in DraftReplies /\ site \in Sites
  /\ StartAlone

\* ------------------------------------------------------------ voice/rewrite.js
\* A request to voice/rewrite: text, voice_profile and sliders are the
\* members of the body; the text is kept as runs.
VoiceRequest(method, hasKey, body, text, voice_profile, sliders) ==
  [endpoint |-> "voice", method |-> method, hasKey |-> hasKey, body |-> body,
   text |-> text, voice_profile |-> voice_profile, sliders |-> sliders]

\* The least length of a passage, trimmed.
MinPassageChars == 10

\* The most characters of the passage that are quoted to the generator.
MaxPassageChars == 4000

\* The handler of voice/rewrite.js up to the prompts.
ValidateVoice(r) ==
  IF r.method # "POST" THEN Respond(errRes(<<"Method not allowed">>, 405))
  ELSE IF ~r.hasKey THEN Respond(errRes(<<"AI not configured">>, 503))
  ELSE IF r.body = "invalid" THEN Respond(errRes(<<"Invalid JSON body">>, 400))
  ELSE IF r.body = "null" THEN Throw
  ELSE IF ~Truthy(r.text) \/ r.text.t # "str" \/ TrimRuns(r.text.s) = <<>>
  THEN Respond(errRes(<<"text is required">>, 400))
  ELSE IF TextLength(TrimRuns(r.text.s)) < MinPassageChars
  THEN Respond(errRes(<<"text is too short to rewrite">>, 400))
  ELSE Pass

\* A slider compared as a number: null counts as 0, what is no number
\* compares false both ways.
SliderWord(v, low, middle, high) ==
  LET n == IF v.t = "num" THEN v.n ELSE 0
      comparable == v.t \in {"num", "null"}
  IN IF comparable /\ n < 34 THEN low
     ELSE IF comparable /\ n > 66 THEN high
     ELSE middle

DefaultSliders ==
  Obj(<< <<<<"formal">>, Num(50)>>, <<<<"concise">>, Num(50)>>,
         <<<<"opinionated">>, Num(50)>> >>)

\* chips.map(c => label + ": " + value).join(", ")
RECURSIVE ChipList(_)
ChipList(chips) ==
  IF chips = <<>> THEN <<>>
  ELSE ToStr(Get(Head(chips), <<"label">>)) \o <<": ">>
       \o ToStr(Get(Head(chips), <<"value">>))
       \o (IF Len(chips) > 1 THEN <<", ">> ELSE <<>>)
       \o ChipList(Tail(chips))

\* voiceDesc of buildSystem.
VoiceDesc(voiceProfile) ==
  LET chips == Get(voiceProfile, <<"chips">>)
      learned == OrElse(Get(voiceProfile, <<"learned_text">>), Str(<<>>))
  IN IF ~Truthy(voiceProfile) THEN <<>>
     ELSE (IF IsArray(chips) /\ ChipList(chips.items) # <<>>
           THEN <<"\n", "Voice profile: ">> \o ChipList(chips.items) \o <<".">>
           ELSE <<>>)
          \o (IF Truthy(learned) THEN <<"\n">> \o ToStr(learned) ELSE <<>>)

\* Reading label of a chip that is null or undefined throws.
BuildSystemThrows(voiceProfile) ==
  /\ Truthy(voiceProfile)
  /\ IsArray(Get(voiceProfile, <<"chips">>))
  /\ ThrowsOnRead(Get(voiceProfile, <<"chips">>).items)

\* buildSystem of voice/rewrite.js.
buildSystem(voiceProfile, sliders) ==
  LET s == OrElse(sliders, DefaultSliders)
  IN <<"You are a writing assistant that rewrites passages in the author's established voice.">>
     \o VoiceDesc(voiceProfile)
     \o <<"\n", "\n", "Style constraints:", "\n",
          "- Register: ",
          SliderWord(Get(s, <<"formal">>), "conversational and informal",
                     "semi-formal", "formal and professional"), "\n",
          "- Length style: ",
          SliderWord(Get(s, <<"concise">>), "expressive and elaborated",
                     "balanced in length", "very concise and tight"), "\n",
          "- Stance: ",
          SliderWord(Get(s, <<"opinionated">>), "neutral and objective",
                     "mildly opinionated", "strongly opinionated and direct"),
          "\n", "\n",
          "Always preserve the core meaning and facts of the original. Do not add information that isn't implied by the source. Output ONLY valid JSON - no markdown fences, no commentary.">>

\* USER_TEMPLATE: the fixed instructions, then the passage cut to its first
\* MaxPassageChars characters.
USER_TEMPLATE(text) ==
  [NoPrompt EXCEPT !.kind = "Original passage:",
                   !.article = SliceRuns(text, MaxPassageChars)]

\* The 200 answer {alternatives}.
VoiceSuccess(alternatives) ==
  [NoResponse EXCEPT !.status = 200, !.kind = "alternatives",
                     !.alternatives = alternatives, !.cors = TRUE]

\* The map of voice/rewrite.js: title and text defaulted with || and coerced
\* with String().
VoiceMap(items) ==
  [i \in 1..Len(items) |->
     [title |-> Str(ToStr(OrElse(Get(items[i], <<"title">>), Str(<<"Variant">>)))),
      text |-> Str(ToStr(OrElse(Get(items[i], <<"text">>), Str(<<>>))))]]

\* The answer to the parsed reply: reading a member of null, or of an entry
\* that is null, throws.  The replies drawn are shorter than the 200
\* characters of the text the message keeps.
RespondVoice(parsed, cleaned) ==
  IF ~parsed.ok
  THEN errRes(<<"Failed to parse AI response: ">> \o cleaned, 502)
  ELSE IF IsNullish(parsed.val) THEN NoResponse
  ELSE IF ~IsArray(Get(parsed.val, <<"alternatives">>))
          \/ Len(Get(parsed.val, <<"alternatives">>).items) = 0
  THEN errRes(<<"Unexpected AI response structure">>, 502)
  ELSE IF ThrowsOnRead(Get(parsed.val, <<"alternatives">>).items) THEN NoResponse
  ELSE VoiceSuccess(SelectSeq(VoiceMap(Get(parsed.val, <<"alternatives">>).items),
                              NonEmptyText))

RecoverVoice(cleaned) == RespondVoice(JsonParse(cleaned), cleaned)

\* 98: the preflight.
VoicePreflight ==
  /\ pc = "start"
  /\ req.endpoint = "voice"
  /\ req.method = "OPTIONS"
  /\ resp' = [TextResponse(<<"ok">>, 200) EXCEPT !.cors = TRUE]
  /\ pc' = "done"
  /\ UNCHANGED <<req, gen, site, calls, systemPrompt, userMessage, temperature,
                 raw, peer, articleText, prompt>>

\* 99-114: method, key, body, text.
VoiceValidate ==
  /\ pc = "start"
  /\ req.endpoint = "voice"
  /\ req.method # "OPTIONS"
  /\ resp' = ValidateVoice(req).resp
  /\ pc' = CASE ValidateVoice(req).verdict = "respond" -> "done"
             [] ValidateVoice(req).verdict = "throw" -> "threw"
             [] OTHER -> "build"
  /\ UNCHANGED <<req, gen, site, calls, systemPrompt, userMessage, temperature,
                 raw, peer, articleText, prompt>>

\* 116-117: the two prompts.
VoiceBuildPrompts ==
  /\ pc = "build"
  /\ req.endpoint = "voice"
  /\ systemPrompt' = IF BuildSystemThrows(req.voice_profile) THEN <<>>
                     ELSE buildSystem(req.voice_profile, req.sliders)
  /\ prompt' = IF BuildSystemThrows(req.voice_profile) THEN NoPrompt
               ELSE USER_TEMPLATE(TrimRuns(req.text.s))
  /\ pc' = IF BuildSystemThrows(req.voice_profile) THEN "threw" ELSE "call"
  /\ UNCHANGED <<req, gen, site, calls, userMessage, temperature, raw, resp,
                 peer, articleText>>

\* 119-136: the one fetch to the generator.
VoiceCallGenerator ==
  /\ pc = "call"
  /\ req.endpoint = "voice"
  /\ calls' = calls + 1
  /\ pc' = "awaiting"
  /\ UNCHANGED <<req, gen, site, systemPrompt, userMessage, temperature,
                 raw, resp, peer, articleText, prompt>>

\* 137-139: fetch rejects (a network error, or the 28 s are over).
VoiceFetchRejects ==
  /\ pc = "awaiting"
  /\ req.endpoint = "voice"
  /\ gen.kind \in {"neterr", "hang"}
  /\ resp' = errRes(<<"AI request failed: ",
                      IF gen.kind = "hang"
                      THEN "TimeoutError: The operation was aborted due to timeout"
                      ELSE "TypeError: fetch failed">>, 502)
  /\ pc' = "done"
  /\ UNCHANGED <<req, gen, site, calls, systemPrompt, userMessage, temperature,
                 raw, peer, articleText, prompt>>

\* 141-144: a status that is not ok.
VoiceBackendError ==
  /\ pc = "awaiting"
  /\ req.endpoint = "voice"
  /\ gen.kind = "http"
  /\ ~IsOk(gen.status)
  /\ resp' = errRes(<<"AI error ">> \o NumToStr(gen.status) \o <<": ">>
                    \o (IF gen.hasText THEN gen.body ELSE <<>>), 502)
  /\ pc' = "done"
  /\ UNCHANGED <<req, gen, site, calls, systemPrompt, userMessage, temperature,
                 raw, peer, articleText, prompt>>

\* 146-153: the reply's text, fences removed; the two replace calls and the
\* trims are those of generate-draft.js.
VoiceFetchResolves ==
  /\ pc = "awaiting"
  /\ req.endpoint = "voice"
  /\ gen.kind = "http"
  /\ IsOk(gen.status)
  /\ raw' = DraftRawText(gen)
  /\ pc' = "parse"
  /\ UNCHANGED <<req, gen, site, calls, systemPrompt, userMessage, temperature,
                 resp, peer, articleText, prompt>>

\* 155-170: the reply is parsed, checked, mapped, filtered and answered; an
\* exception ends the handler with no response.
VoiceProcessReply ==
  /\ pc = "parse"
  /\ req.endpoint = "voice"
  /\ resp' = RecoverVoice(raw)
  /\ pc' = IF RecoverVoice(raw).kind = "none" THEN "threw" ELSE "done"
  /\ UNCHANGED <<req, gen, site, calls, systemPrompt, userMessage, temperature,
                 raw, peer, articleText, prompt>>

NextVoice ==
  \/ VoicePreflight
  \/ VoiceValidate
  \/ VoiceBuildPrompts
  \/ VoiceCallGenerator
  \/ VoiceFetchRejects
  \/ VoiceBackendError
  \/ VoiceFetchResolves
  \/ VoiceProcessReply

\* An entry of the alternatives array of voice/rewrite.
VoiceAlt(title, text) ==
  Obj((IF title.t = "undef" THEN <<>> ELSE << <<<<"title">>, title>> >>)
      \o (IF text.t = "undef" THEN <<>> ELSE << <<<<"text">>, text>> >>))

VoiceEntries ==
  { VoiceAlt(Str(<<"Default">>), Str(<<"A", " ", "rewrite.">>)),
    VoiceAlt(Undef, Str(<<"Bold.">>)),
    VoiceAlt(Str(<<>>), Str(<<"Short.">>)),
    VoiceAlt(Str(<<"Bolder">>), Str(<<>>)),
    VoiceAlt(Str(<<"Shorter">>), Str(<<" ", "\n">>)),
    VoiceAlt(Undef, Undef),
    VoiceAlt(Str(<<"Default">>), Num(7)),
    VoiceAlt(Arr(<<>>), Str(<<"Untitled.">>)) }

\* The JSON values the generator may mean to send: every array of up to
\* MaxAlts entries, the three rewrites asked for, and values of another shape.
VoicePayloads ==
  {WithAlternatives(Arr(a)) :
     a \in UNION {[1..n -> VoiceEntries] : n \in 0..MaxAlts}}
  \cup { WithAlternatives(Arr(<< VoiceAlt(Str(<<"Default">>), Str(<<"One.">>)),
                                 VoiceAlt(Str(<<"Bolder">>), Str(<<"Two.">>)),
                                 VoiceAlt(Str(<<"Shorter">>), Str(<<"3">>)) >>)),
         WithAlternatives(Arr(<<Null>>)),
         WithAlternatives(Str(<<"none">>)),
         Obj(<<>>), Null, Num(7) }

VoiceReplies ==
  {Reply("http", 200, TRUE, w, Stringify(p)) :
     w \in {"bare", "json", "prose"}, p \in VoicePayloads}
  \cup { Reply("http", 200, TRUE, "bare", <<"Sorry,", " ", "I cannot.">>),
         Reply("http", 200, FALSE, "bare", <<>>),
         Reply("http", 529, TRUE, "bare", <<"overloaded">>),
         Reply("neterr", 0, FALSE, "bare", <<>>),
         Reply("hang", 0, FALSE, "bare", <<>>) }

Passage == Str(<<Run(" ", 2), Run("a", 40), Run(" ", 1), Run("a", 20), Run(" ", 3)>>)

Chip(label, value) ==
  Obj(<< <<<<"label">>, Str(<<label>>)>>, <<<<"value">>, Str(<<value>>)>> >>)

VoiceProfiles ==
  { Undef, Null, Obj(<<>>),
    Obj(<< <<<<"chips">>, Arr(<<Chip("Tone", "warm"), Chip("Pace", "brisk")>>)>>,
           <<<<"learned_text">>, Str(<<"Short sentences.">>)>> >>),
    Obj(<< <<<<"chips">>, Arr(<<>>)>> >>),
    Obj(<< <<<<"chips">>, Arr(<<Null>>)>> >>),
    Obj(<< <<<<"chips">>, Str(<<"warm">>)>> >>) }

Sliders(formal, concise, opinionated) ==
  Obj(<< <<<<"formal">>, formal>>, <<<<"concise">>, concise>>,
         <<<<"opinionated">>, opinionated>> >>)

VoiceSliders ==
  { Undef, Null, Obj(<<>>),
    Sliders(Num(33), Num(34), Num(66)),
    Sliders(Num(67), Num(0), Num(100)),
    Sliders(Null, Undef, Str(<<"high">>)) }

\* Passages: missing, no string, empty, blank, one character short, exactly
\* long enough, longer than is quoted.
VoiceTexts ==
  { Undef, Num(7), Str(<<>>), Str(<<Run(" ", 4)>>),
    Str(<<Run(" ", 5), Run("a", MinPassageChars - 1), Run(" ", 5)>>),
    Str(<<Run("a", 4), Run(" ", 1), Run("a", MinPassageChars - 5)>>),
    Str(<<Run("a", MaxPassageChars), Run(" ", 1), Run("a", 5)>>),
    Passage }

\* Every passage, profile and slider setting with a plain reply; the methods,
\* a missing key and bodies that are no object; a plain request with every
\* reply.
VoiceCases ==
  {<<VoiceRequest("POST", TRUE, "object", t, p, s), g>> :
     t \in VoiceTexts, p \in VoiceProfiles, s \in VoiceSliders,
     g \in {Reply("http", 200, TRUE, "bare",
                  Stringify(WithAlternatives(Arr(<<VoiceAlt(Str(<<"Default">>),
                                                            Str(<<"One.">>))>>))))}}
  \cup {<<VoiceRequest(m, k, b, Passage, Undef, Undef), g>> :
          m \in {"OPTIONS", "GET", "POST"}, k \in BOOLEAN,
          b \in {"object", "null", "invalid"},
          g \in {Reply("hang", 0, FALSE, "bare", <<>>)}}
  \cup {<<VoiceRequest("POST", TRUE, "object", Passage, Undef, Undef), g>> :
          g \in VoiceReplies}

InitVoice ==
  /\ \E c \in VoiceCases : req = c[1] /\ gen = c[2]
  /\ StartAlone /\ site = NoSite

SpecVoice == InitVoice /\ [][NextVoice]_vars

\* ------------------------------------------------------------ the compiler
\* The prompt compiler called on its own: buildSystemPrompt, buildUserMessage
\* and getTemperature applied to a request that went through no validation.
Compile ==
  /\ pc = "compile"
  /\ systemPrompt' = IF CompileThrows(req) THEN <<>> ELSE SystemFor(req)
  /\ userMessage' = IF CompileThrows(req) THEN <<>> ELSE UserFor(req)
  /\ temperature' = TemperatureFor(req)
  /\ pc' = IF CompileThrows(req) THEN "threw" ELSE "compiled"
  /\ UNCHANGED <<site, articleText, prompt, peer, req, gen, calls, raw, resp>>

NextCompiler == Compile

\* Action names: the registry's, names it does not have, names every object
\* inherits.
CompilerActions ==
  {Str(<<a>>) : a \in ValidActions \cup {"unknown", "Rewrite", "constructor", "toString"}}

EmptyContext == <<Str(<<>>), Str(<<>>), Str(<<>>), Str(<<>>)>>

\* A title alone, an after alone.
PartContext == <<Str(<<"Title">>), Undef, Str(<<>>), Str(<<"after">>)>>

\* Every action name with every tone value and note context at both ai-edit
\* handlers; every profile at ai-edit.js.
CompilerRequests ==
  {Request(e, "POST", TRUE, "object", a, t, s, c, Undef) :
     e \in Endpoints, a \in CompilerActions, t \in ToneValues,
     s \in {Str(<<"Hi">>), Str(<<" ", "Hi", " ">>)},
     c \in {NoContext, EmptyContext, PartContext, SomeContext}}
  \cup {Request("api", "POST", TRUE, "object", a, t, Str(<<"Hi">>), SomeContext, p) :
          a \in CompilerActions, t \in {Undef, Str(<<"Formal">>)}, p \in Profiles}

InitCompiler ==
  /\ req \in CompilerRequests
  /\ gen \in {Reply("hang", 0, FALSE, "bare", <<>>)}
  /\ pc = "compile"
  /\ calls = 0
  /\ systemPrompt = <<>>
  /\ userMessage = <<>>
  /\ temperature = 0
  /\ raw = <<>>
  /\ resp = NoResponse
  /\ peer = NoPeer /\ articleText = Null /\ prompt = NoPrompt /\ site = NoSite

SpecCompiler == InitCompiler /\ [][NextCompiler]_vars

\* The steps from the accepted request to the generator call.
DraftUpToCall ==
  \/ DraftValidate
  \/ UseProvidedText
  \/ FetchArticle
  \/ ArticleNotOk
  \/ ArticleFetchRejects
  \/ ArticleResolves
  \/ DraftBuildPrompt
  \/ DraftCallGenerator

\* The runtime runs the handler on: a step that can be taken is taken.
SpecDraft == InitDraft /\ [][NextDraft]_vars /\ WF_vars(DraftUpToCall)

\* Whether the handler answers at all: every request, the ways a call can end,
\* short replies.
ShortReplies ==
  {Reply("http", 200, TRUE, "bare", b) :
     b \in {<<"I cannot help with that.">>, Stringify(Obj(<<>>))}}
  \cup Failures

InitFair == req \in HandlerRequests /\ gen \in ShortReplies /\ Start

\* The runtime runs the handler on: a step that can be taken is taken.

FairSpec == InitFair /\ [][Next]_vars /\ WF_vars(Next)

\* ------------------------------------------------------------ properties
Finished == pc \in {"done", "threw"}

\* The generator returned a text with a success status.
GeneratorSucceeded == gen.kind = "http" /\ IsOk(gen.status) /\ gen.hasText

\* The handler is through with a text the generator returned.
ReplyHandled == Finished /\ calls = 1 /\ GeneratorSucceeded

\* The text the generator returned.
GeneratorText == Wrap(gen.wrapper, gen.body)

Lexemes(s) == {s[i] : i \in 1..Len(s)}

RecoveryCodes == {<<"parse_failed">>, <<"bad_schema">>, <<"empty_alternatives">>}

Is4xx(status) == status >= 400 /\ status <= 499

\* The request came by POST, with the secret set and a JSON object as body:
\* the field validation is what decides it.
ReachesValidation == req.method = "POST" /\ req.hasKey /\ req.body = "object"

\* C1: whatever text the generator returns with a success status, the handler
\* ends with HTTP 200 and either a non-empty alternatives list or one of the
\* three recovery error codes; it never throws and never answers 5xx.
C1_RecoveryNeverCrashes ==
  ReplyHandled =>
    /\ pc = "done"
    /\ resp.status = 200
    /\ \/ resp.kind = "alternatives" /\ Len(resp.alternatives) >= 1
       \/ resp.kind = "error" /\ resp.error \in RecoveryCodes

\* The validation failures C2 lists: action missing or not a string, action
\* not in the registry, selectedText empty after trimming.
EmptySelection ==
  \/ IsNullish(req.selectedText)
  \/ req.selectedText.t = "str" /\ Trim(req.selectedText.s) = <<>>

FailsValidation ==
  \/ IsNullish(req.action)
  \/ req.action.t # "str"
  \/ ~IsValidAction(req.action)
  \/ EmptySelection

\* C2: a request that fails validation is answered with a 4xx error, and the
\* generator is never called for it.
C2_InvalidRequestRejected ==
  (ReachesValidation /\ FailsValidation) =>
    /\ calls = 0
    /\ pc \in {"start", "done"}
    /\ pc = "done" => Is4xx(resp.status)

\* C2, the part that holds: no call to the generator, no prompt compiled, for a
\* request that fails validation.
C2_NoCallForInvalidRequest ==
  (ReachesValidation /\ FailsValidation) =>
    calls = 0 /\ systemPrompt = <<>> /\ pc \in {"start", "done", "threw"}

ToneWithoutValue == req.action = Str(<<"tone">>) /\ ~Truthy(req.tone)
ToneWithValue == req.action = Str(<<"tone">>) /\ Truthy(req.tone)

\* s holds part as a run of consecutive lexemes.
Contains(s, part) ==
  \E i \in 0..(Len(s) - Len(part)) : SubSeq(s, i + 1, i + Len(part)) = part

\* The instruction the tone action is to be compiled with, and the one of the
\* rewrite fallback.
ExpectedToneText ==
  <<"ACTION - Tone (">> \o ToStr(req.tone) \o <<"): rewrite to match this tone: ">>
  \o ToStr(req.tone)
RewriteText ==
  <<"ACTION - Rewrite: improve flow and readability. Keep meaning identical.">>

\* C3: action tone without a tone value is rejected with a 4xx error before
\* the prompt compiler and the generator are invoked; action tone with a tone
\* value is compiled with the tone instruction, never the rewrite fallback.
C3_ToneRequiresValue ==
  /\ (ReachesValidation /\ ToneWithoutValue) =>
       /\ calls = 0
       /\ systemPrompt = <<>> /\ userMessage = <<>>
       /\ pc \in {"start", "done"}
       /\ pc = "done" => Is4xx(resp.status)
  /\ (ToneWithValue /\ systemPrompt # <<>>) =>
       /\ Contains(systemPrompt, ExpectedToneText)
       /\ ~Contains(systemPrompt, RewriteText)

\* C3, the part that holds: without a tone value nothing is compiled and the
\* generator is not called; with one, the tone instruction is compiled.
C3_ToneNeverCompiledWithoutValue ==
  /\ (ReachesValidation /\ ToneWithoutValue) =>
       /\ calls = 0
       /\ systemPrompt = <<>> /\ userMessage = <<>>
       /\ pc \in {"start", "done", "threw"}
  /\ (ToneWithValue /\ systemPrompt # <<>>) =>
       /\ Contains(systemPrompt, ExpectedToneText)
       /\ ~Contains(systemPrompt, RewriteText)

\* C4: every request causes at most one call to the generator, whatever the
\* outcome of that call.
C4_AtMostOneCall == calls <= 1

\* A request whose one call failed, answered.
C4_Witness ==
  /\ pc = "done" /\ calls = 1
  /\ gen.kind = "http" /\ gen.status = 503
  /\ resp.status = 502

\* C5: once the generator has been called, the handler eventually returns a
\* response, even when the generator never answers.
C5_HandlerAlwaysAnswers == (pc = "awaiting") ~> Finished

\* C6: a generator text without "{" or without "}" (fence stripping neither
\* adds nor removes a brace) gives parse_failed, with raw the text exactly as
\* the generator returned it.
C6_NoBraceIsParseFailure ==
  (ReplyHandled /\ ("{" \notin Lexemes(GeneratorText)
                    \/ "}" \notin Lexemes(GeneratorText))) =>
    /\ pc = "done"
    /\ resp.status = 200
    /\ resp.kind = "error" /\ resp.error = <<"parse_failed">>
    /\ resp.hasRaw /\ resp.raw = GeneratorText

\* Fenced prose: the text the parser sees is not the text received.
C6_Witness ==
  /\ pc = "done" /\ ReplyHandled
  /\ gen.wrapper = "json" /\ gen.body = <<"I cannot help with that.">>
  /\ resp.error = <<"parse_failed">>
  /\ resp.raw # CleanText(resp.raw)

\* What a response says, its raw text and headers aside.
Outcome(r) ==
  [status |-> r.status, kind |-> r.kind, error |-> r.error,
   alternatives |-> r.alternatives, extra |-> r.extra]

FenceWrappers == {"json", "plain", "lang"}

\* body is the text of a JSON object.
IsObjectText(body) == JsonParse(body).ok /\ JsonParse(body).val.t = "obj"

ExampleAlternatives ==
  <<[label |-> Str(<<"Option", " ", "1">>), text |-> Str(<<"Hi">>)]>>

\* C7 as stated: for every valid JSON object text, fenced (json tag, another
\* tag, no tag), the outcome is the outcome of the text alone.
C7_FenceUnwrapAnyObject ==
  (ReplyHandled /\ gen.wrapper \in FenceWrappers /\ IsObjectText(gen.body)) =>
    Outcome(resp) = Outcome(Recover(req.endpoint, gen.body))

\* C7 amended: the same for every valid JSON object text that holds no triple
\* backtick; the fenced example of the specification yields its one
\* alternative.
C7_FenceUnwrap ==
  /\ (/\ ReplyHandled
      /\ gen.wrapper \in FenceWrappers
      /\ IsObjectText(gen.body)
      /\ FENCE \notin Lexemes(gen.body)) =>
       Outcome(resp) = Outcome(Recover(req.endpoint, gen.body))
  /\ (ReplyHandled /\ gen.wrapper \in FenceWrappers /\ gen.body = ExampleBody) =>
       resp.kind = "alternatives" /\ resp.alternatives = ExampleAlternatives

C7_Witness ==
  /\ ReplyHandled
  /\ gen.wrapper = "lang" /\ gen.body = ExampleBody
  /\ resp.kind = "alternatives"

\* The JSON the recovery found in the reply, and its alternatives array.
Recovered == parseAlternativesTs(raw)
RecoveredItems == Get(Recovered.val, <<"alternatives">>).items
HasAlternativesArray ==
  Recovered.ok /\ IsArray(Get(Recovered.val, <<"alternatives">>))

\* The entry is an object whose text is missing or blank.
BlankEntry(e) ==
  /\ e.t = "obj"
  /\ \/ IsNullish(Get(e, <<"text">>))
     \/ Get(e, <<"text">>).t = "str" /\ Trim(Get(e, <<"text">>).s) = <<>>

\* C8: an alternatives array whose entries all have a missing or blank text
\* gives empty_alternatives, which is neither bad_schema nor parse_failed.
C8_AllBlankIsEmptyResult ==
  (/\ ReplyHandled
   /\ HasAlternativesArray
   /\ Len(RecoveredItems) >= 1
   /\ \A i \in 1..Len(RecoveredItems) : BlankEntry(RecoveredItems[i])) =>
    /\ pc = "done"
    /\ resp.status = 200
    /\ resp.kind = "error" /\ resp.error = <<"empty_alternatives">>

\* C9: a parsed value with no alternatives array gives bad_schema, and
\* parse_failed is given only when no JSON object was located or parsed.
C9_WrongShapeIsSchemaFailure ==
  /\ (ReplyHandled /\ Recovered.ok /\ BadSchema(Recovered.val)) =>
       /\ pc = "done"
       /\ resp.status = 200
       /\ resp.kind = "error" /\ resp.error = <<"bad_schema">>
  /\ (ReplyHandled /\ resp.error = <<"parse_failed">>) => ~Recovered.ok

\* The placeholder of position i.
Placeholder(i) == Str(<<"Option", " ">> \o NumToStr(i))

\* C10 as stated, for output o made from entry e at position i: a missing
\* label gives the placeholder, a supplied label and the text are unchanged.
MadeFromAsStated(o, e, i) ==
  /\ IF Get(e, <<"label">>).t = "undef" THEN o.label = Placeholder(i)
     ELSE o.label = Get(e, <<"label">>)
  /\ o.text = Get(e, <<"text">>)

\* C10 amended: a missing label gives the placeholder, a label supplied as a
\* non-empty string is unchanged, a text supplied as a string is unchanged.
MadeFrom(o, e, i) ==
  /\ Get(e, <<"label">>).t = "undef" => o.label = Placeholder(i)
  /\ (Get(e, <<"label">>).t = "str" /\ Get(e, <<"label">>).s # <<>>) =>
       o.label = Get(e, <<"label">>)
  /\ Get(e, <<"text">>).t = "str" => o.text = Get(e, <<"text">>)

\* The ways to pick, in order, n of the positions 1..m.
Picks(n, m) ==
  {f \in [1..n -> 1..m] : \A j \in 1..n, k \in 1..n : j < k => f[j] < f[k]}

C10_NormalizeLabelsAsStated ==
  (ReplyHandled /\ resp.kind = "alternatives") =>
    \E f \in Picks(Len(resp.alternatives), Len(RecoveredItems)) :
      \A k \in 1..Len(resp.alternatives) :
        MadeFromAsStated(resp.alternatives[k], RecoveredItems[f[k]], f[k])

\* C10 amended: every alternative returned is made from an entry of the
\* backend's array, in order, with the placeholder of the entry's position for
\* a missing label, a non-empty string label unchanged and a string text
\* unchanged.
C10_NormalizeLabels ==
  (ReplyHandled /\ resp.kind = "alternatives") =>
    \E f \in Picks(Len(resp.alternatives), Len(RecoveredItems)) :
      \A k \in 1..Len(resp.alternatives) :
        MadeFrom(resp.alternatives[k], RecoveredItems[f[k]], f[k])

\* The example of the specification: a missing label and a custom one.
C10_Witness ==
  /\ ReplyHandled
  /\ gen.body = Stringify(WithAlternatives(Arr(
                  <<Alt(Undef, Str(<<"A">>)), Alt(Str(<<"Custom">>), Str(<<"B">>))>>)))
  /\ resp.kind = "alternatives"
  /\ resp.alternatives = <<[label |-> Placeholder(1), text |-> Str(<<"A">>)],
                           [label |-> Str(<<"Custom">>), text |-> Str(<<"B">>)]>>

\* C11: every success response has at least one alternative, each with a
\* non-empty label and a text that is non-empty after trimming, whatever the
\* backend supplied, an empty-string label included.
C11_SuccessIsNonEmpty ==
  (ReplyHandled /\ resp.kind = "alternatives") =>
    /\ Len(resp.alternatives) >= 1
    /\ \A k \in 1..Len(resp.alternatives) :
         /\ ToStr(resp.alternatives[k].label) # <<>>
         /\ resp.alternatives[k].text.t = "str"
         /\ Trim(resp.alternatives[k].text.s) # <<>>

\* C11, the part that holds: a success response has at least one alternative
\* and every text is non-empty after trimming.
C11_SuccessHasTexts ==
  (ReplyHandled /\ resp.kind = "alternatives") =>
    /\ Len(resp.alternatives) >= 1
    /\ \A k \in 1..Len(resp.alternatives) :
         /\ resp.alternatives[k].text.t = "str"
         /\ Trim(resp.alternatives[k].text.s) # <<>>

\* The reply holds k alternatives, each with a label and a text.
ReplyCount(k) ==
  gen.wrapper = "bare" /\ gen.body = Stringify(WithAlternatives(Arr(Options(k))))

\* The k alternatives as a success response lists them.
OptionsReturned(k) ==
  [i \in 1..k |-> [label |-> Str(<<"Option", " ">> \o NumToStr(i)),
                   text |-> Str(<<"Text", " ">> \o NumToStr(i))]]

\* C12: the count an action asks for is not enforced: a reply with k >= 1
\* alternatives is answered with all k of them, whatever the action, and a
\* reply with none is answered with an error (the ai-edit handlers).
C12_CountNotEnforced ==
  \A k \in 0..MaxCount :
    (ReplyHandled /\ req.endpoint \in Endpoints /\ ReplyCount(k)) =>
      /\ pc = "done"
      /\ k = 0 => resp.kind = "error"
      /\ k >= 1 => /\ resp.status = 200
                   /\ resp.kind = "alternatives"
                   /\ resp.alternatives = OptionsReturned(k)

\* An action that asks for two is answered with the four it got.
C12_Witness ==
  /\ ReplyHandled /\ req.endpoint = "supabase"
  /\ req.action = Str(<<"expand">>)
  /\ ReplyCount(4)
  /\ Len(resp.alternatives) = 4

\* The number of times the lexeme occurs in s.
Count(s, lexeme) == Cardinality({i \in 1..Len(s) : s[i] = lexeme})

\* The count C14 gives an action.
ExpectedCount(action) ==
  IF action \in {Str(<<"expand">>), Str(<<"bullets">>)} THEN "2" ELSE "3"

\* C14: the system instructions an ai-edit handler compiles hold exactly one
\* output-format directive, and it names 2 alternatives for expand and
\* bullets, 3 for the other six actions.
C14_OneFormatDirective ==
  (req.endpoint \in Endpoints /\ systemPrompt # <<>>) =>
    /\ IsValidAction(req.action)
    /\ Count(systemPrompt,
             "Return ONLY valid JSON - no prose, no markdown fences.") = 1
    /\ Count(systemPrompt, "Schema (exactly ") = 1
    /\ Contains(systemPrompt,
                <<"Schema (exactly ", ExpectedCount(req.action), " alternatives):">>)

C14_Witness ==
  /\ req.endpoint = "api" /\ req.action = Str(<<"bullets">>)
  /\ pc = "call"
  /\ Contains(systemPrompt, <<"Schema (exactly ", "2", " alternatives):">>)

\* The profile member is given and not empty: a non-empty text, a non-empty
\* list, style notes that are not only white space.
Given(field) ==
  LET v == Get(req.userProfile, <<field>>)
  IN CASE field = "languages" -> v.t = "arr" /\ Len(v.items) > 0
       [] field = "style_notes" -> v.t = "str" /\ Trim(v.s) # <<>>
       [] OTHER -> v.t = "str" /\ v.s # <<>>

ProfileFields == {"tone", "audience", "intent", "languages", "style_notes"}

\* The lexeme that opens the line of a profile field.
LineOpening(field) ==
  CASE field = "tone" -> "* Preferred tone: "
    [] field = "audience" -> "* Target audience: "
    [] field = "intent" -> "* Writing intent: "
    [] field = "languages" -> "* Languages: "
    [] OTHER -> "* Style notes: "

ProfileHeader == "AUTHOR PROFILE (adapt your output to match these preferences):"

\* C16: the profile block is in the system instructions of ai-edit.js exactly
\* when a profile field is given and not empty; it then has one line for each
\* such field and none for another; without such a field the instructions are
\* those compiled with no profile.
C16_ProfileBlock ==
  (req.endpoint = "api" /\ systemPrompt # <<>>) =>
    /\ Count(systemPrompt, ProfileHeader)
         = (IF \E f \in ProfileFields : Given(f) THEN 1 ELSE 0)
    /\ \A f \in ProfileFields :
         Count(systemPrompt, LineOpening(f)) = (IF Given(f) THEN 1 ELSE 0)
    /\ (~ \E f \in ProfileFields : Given(f)) =>
         systemPrompt = SystemFor([req EXCEPT !.userProfile = Undef])

\* A profile with two fields given, one empty and two absent.
C16_Witness ==
  /\ req.endpoint = "api" /\ pc = "call"
  /\ req.userProfile = Profile(Str(<<"warm">>), Str(<<>>), Undef,
                               Arr(<<Str(<<"en">>), Str(<<"fr">>)>>), Undef)
  /\ Count(systemPrompt, ProfileHeader) = 1
  /\ Contains(systemPrompt, <<"* Preferred tone: ", "warm", "\n",
                              "* Languages: ", "en", ", ", "fr">>)

GeneratorFailed ==
  gen.kind = "neterr" \/ (gen.kind = "http" /\ ~IsOk(gen.status))

Is5xx(status) == status >= 500 /\ status <= 599

\* C17: a fetch that rejects and a status that is not ok each end the request
\* with a 5xx error, nothing of the reply is parsed, and for a status that is
\* not ok the error carries that status.
C17_BackendFailureIsHardError ==
  (calls = 1 /\ GeneratorFailed) =>
    /\ pc \in {"awaiting", "done"}
    /\ raw = <<>>
    /\ pc = "done" =>
         /\ Is5xx(resp.status)
         /\ ~resp.hasRaw /\ resp.alternatives = NoAlts
         /\ gen.kind = "http" => Contains(resp.error, NumToStr(gen.status))

\* C17, the part that holds at every handler: a 5xx error and nothing parsed.
C17_BackendFailureStops ==
  (calls = 1 /\ GeneratorFailed) =>
    /\ pc \in {"awaiting", "done"}
    /\ raw = <<>>
    /\ pc = "done" => Is5xx(resp.status) /\ ~resp.hasRaw /\ resp.alternatives = NoAlts

\* C19: every response of the Supabase function carries the CORS headers, no
\* exception leaves it, and the preflight is answered 200 whatever the secret
\* and the body.
C19_CorsOnEveryPath ==
  req.endpoint = "supabase" =>
    /\ pc # "threw"
    /\ pc = "done" => resp.kind # "none" /\ resp.cors
    /\ (pc = "done" /\ req.method = "OPTIONS") =>
         resp.status = 200 /\ resp.kind = "ok" /\ calls = 0

\* The preflight with no secret set and a body that is no JSON.
C19_PreflightWitness ==
  /\ req.endpoint = "supabase" /\ req.method = "OPTIONS"
  /\ ~req.hasKey /\ req.body = "invalid"
  /\ pc = "done" /\ resp.status = 200 /\ resp.cors

CreativeActions == {"tone", "rewrite", "example"}
CorrectiveActions == {"shorter", "clearer", "fix", "expand", "bullets"}

\* C13: the temperature a handler sends for a creative action is strictly
\* higher than the one it sends for any corrective action.
C13_CreativeAboveCorrective ==
  (calls = 1 /\ req.action \in {Str(<<a>>) : a \in CreativeActions}) =>
    \A k \in CorrectiveActions :
      temperature > TemperatureFor([req EXCEPT !.action = Str(<<k>>)])

\* C13, the part that holds: the same in the two ai-edit handlers.
C13_CreativeAboveCorrectiveAiEdit ==
  (calls = 1 /\ req.endpoint \in Endpoints
            /\ req.action \in {Str(<<a>>) : a \in CreativeActions}) =>
    \A k \in CorrectiveActions :
      temperature > TemperatureFor([req EXCEPT !.action = Str(<<k>>)])

\* The first request's invocation.
Handler ==
  [req |-> req, gen |-> gen, pc |-> pc, calls |-> calls,
   systemPrompt |-> systemPrompt, userMessage |-> userMessage,
   temperature |-> temperature, raw |-> raw, resp |-> resp]

\* What the compiler reads of a request.
CompilerInput(r) ==
  <<r.endpoint, r.action, r.tone, r.noteTitle, r.noteContent, r.selectedText,
    r.before, r.after, r.userProfile>>

RECURSIVE OnLoneRun(_, _)
OnLoneRun(h0, h) ==
  \/ h = h0
  \/ CanAdvance(h0) /\ OnLoneRun(Advance(h0), h)

\* Where an invocation that runs alone ends.
RECURSIVE LoneEnd(_)
LoneEnd(h) == IF CanAdvance(h) THEN LoneEnd(Advance(h)) ELSE h

DraftAccepted ==
  /\ req.endpoint = "draft"
  /\ req.method = "POST"
  /\ ValidateDraft(req).verdict = "pass"

\* The article is not obtained: no usable text came with the request and the
\* fetch fails, is refused, or gives fewer characters than an article has.
ArticleMissing ==
  /\ ~ProvidedUsable(req.articleText)
  /\ \/ site.kind \in {"neterr", "timeout"}
     \/ ~IsOk(site.status)
     \/ ~site.readable
     \/ TextLength(extractText(site.html)) < MinArticleChars

Prefixes == {<<>>, <<"Sure!", " ">>, <<"Here is the JSON:", "\n", "\n">>}
Suffixes == {<<>>, <<" ", "Hope that helps.">>, <<"\n", "Let me know", ".", "\n">>}

\* C21: for every valid JSON object text J, and every prefix and suffix
\* without brace or backtick, recovering prefix + J + suffix has the outcome
\* of recovering J alone, at every handler.
C21_ProseDoesNotMatter ==
  /\ (ReplyHandled /\ gen.wrapper = "bare" /\ IsObjectText(gen.body)) =>
       \A P \in Prefixes, S \in Suffixes :
         Outcome(Recover(req.endpoint, P \o gen.body \o S)) = Outcome(resp)
  /\ (ReplyHandled /\ gen.wrapper = "prose" /\ IsObjectText(gen.body)) =>
       Outcome(resp) = Outcome(Recover(req.endpoint, gen.body))

\* The example of the specification between two sentences, at edit.js.
C21_Witness ==
  /\ ReplyHandled
  /\ req.endpoint = "edit"
  /\ gen.wrapper = "prose" /\ gen.body = ExampleBody
  /\ resp.status = 200 /\ resp.kind = "alternatives"

\* `clean` of the handler: the generator's text, fences stripped, trimmed.
CleanedReply ==
  IF req.endpoint = "edit" THEN Trim(StripEditFences(GeneratorText))
  ELSE CleanText(GeneratorText)

HasBothBraces == IndexOf(CleanedReply, "{") # 0 /\ LastIndexOf(CleanedReply, "}") # 0

\* The substring from the first "{" to the last "}", empty when the last
\* "}" comes first.
BraceSlice ==
  SubSeq(CleanedReply, IndexOf(CleanedReply, "{"), LastIndexOf(CleanedReply, "}"))

\* What the handler makes of the entries of a parsed alternatives array.
NormalisedBy(endpoint, items) ==
  CASE endpoint = "supabase" -> NormaliseTs(items).alts
    [] endpoint = "edit" -> EntriesAsSent(items)
    [] OTHER -> NormaliseJs(items).alts

\* C22: when the substring from the first "{" to the last "}" is no valid
\* JSON the answer is parse_failed with the text as received and without
\* alternatives; alternatives are returned only from the parse of exactly
\* that substring.
C22_NoRepair ==
  ReplyHandled =>
    /\ (HasBothBraces /\ ~JsonParse(BraceSlice).ok) =>
         /\ pc = "done"
         /\ resp.status = 200
         /\ resp.kind = "error" /\ resp.error = <<"parse_failed">>
         /\ resp.hasRaw /\ resp.raw = GeneratorText
         /\ resp.alternatives = NoAlts
    /\ resp.kind = "alternatives" =>
         /\ HasBothBraces
         /\ JsonParse(BraceSlice).ok
         /\ IsArray(Get(JsonParse(BraceSlice).val, <<"alternatives">>))
         /\ resp.alternatives =
              NormalisedBy(req.endpoint,
                           Get(JsonParse(BraceSlice).val, <<"alternatives">>).items)

\* A complete object followed by prose that holds a brace.
C22_Witness ==
  /\ ReplyHandled
  /\ req.endpoint = "supabase"
  /\ gen.wrapper = "json"
  /\ gen.body = ExampleBody \o <<" ", "(see", "}", ")">>
  /\ resp.error = <<"parse_failed">> /\ resp.raw = GeneratorText

\* The request with action rewrite in place of its own.
AsRewrite(r) == [r EXCEPT !.action = Str(<<"rewrite">>)]

\* The compiler is done with a request whose action the registry does not have.
UnknownCompiled ==
  pc \in {"compiled", "threw"} /\ ~IsValidAction(req.action)

\* C23: compiling with an action the registry does not have fails only where
\* rewrite fails and gives the system instructions rewrite gives, names of
\* built-in properties such as constructor and toString included.
C23_UnknownActionIsRewrite ==
  UnknownCompiled =>
    /\ pc = "threw" => CompileThrows(AsRewrite(req))
    /\ pc = "compiled" => systemPrompt = SystemFor(AsRewrite(req))

\* The same for the names no object inherits.
C23_UnknownOwnNameIsRewrite ==
  (UnknownCompiled /\ req.action.s[1] \notin InheritedNames) =>
    /\ pc = "threw" => CompileThrows(AsRewrite(req))
    /\ pc = "compiled" => systemPrompt = SystemFor(AsRewrite(req))

\* The lexemes that open an action instruction.
ActionOpenings ==
  {InstructionText(a)[1] : a \in ValidActions \ {"tone"}} \cup {"ACTION - Tone ("}

\* Where the lexemes of set cs are in s.
Places(s, cs) == {i \in 1..Len(s) : s[i] \in cs}

\* s ends with part.
EndsWith(s, part) ==
  Len(part) <= Len(s) /\ SubSeq(s, Len(s) - Len(part) + 1, Len(s)) = part

\* The compiler is done with a request whose action is one of the registry.
ActionCompiled == pc = "compiled" /\ IsValidAction(req.action)

\* C24: the system instructions open with the base rules and close with the
\* output-format directive; between the two come the profile block, when there
\* is one, and then the one action instruction.
C24_FixedOrder ==
  ActionCompiled =>
    LET base == Len(BASE_SYSTEM(req.endpoint))
        actionAt == Places(systemPrompt, ActionOpenings)
        headerAt == Places(systemPrompt, {ProfileHeader})
    IN /\ Len(systemPrompt) > base
       /\ SubSeq(systemPrompt, 1, base) = BASE_SYSTEM(req.endpoint)
       /\ \E n \in {2, 3} :
            /\ EndsWith(systemPrompt, Schema(n))
            /\ \A a \in actionAt : a <= Len(systemPrompt) - Len(Schema(n))
       /\ Cardinality(actionAt) = 1
       /\ Cardinality(headerAt) <= 1
       /\ \A a \in actionAt :
            /\ a > base
            /\ \A h \in headerAt : base < h /\ h < a
            /\ headerAt = {} => a = base + 3

\* The four parts, a profile block among them.
C24_Witness ==
  /\ ActionCompiled
  /\ req.endpoint = "api" /\ req.action = Str(<<"expand">>)
  /\ req.userProfile = SomeProfile
  /\ Count(systemPrompt, ProfileHeader) = 1
  /\ EndsWith(systemPrompt, SCHEMA_2)

\* A field of the note as the user message shows it.
Shown(v, placeholder) ==
  IF v.t = "str" /\ v.s # <<>> THEN v.s ELSE <<placeholder>>

\* C25: the user message lists title, full note, selection, before, after and
\* action in this order under their labels; a title, note, before or after that
\* is absent or empty gives its placeholder; the selection is the selected
\* text trimmed; a tone value follows the action name in parentheses.
C25_UserMessageLayout ==
  pc = "compiled" =>
    userMessage =
      <<"TITLE:", "\n">> \o Shown(req.noteTitle, "(untitled)")
      \o <<"\n", "\n", "FULL NOTE:", "\n">> \o Shown(req.noteContent, "(empty)")
      \o <<"\n", "\n", "SELECTION:", "\n">> \o Trim(req.selectedText.s)
      \o <<"\n", "\n", "SURROUNDING CONTEXT:", "\n", "BEFORE:", "\n">>
      \o Shown(req.before, "(start of note)")
      \o <<"\n", "AFTER:", "\n">> \o Shown(req.after, "(end of note)")
      \o <<"\n", "\n", "ACTION:", "\n">> \o req.action.s
      \o (IF req.tone.t = "str" /\ req.tone.s # <<>>
          THEN <<" (tone: ">> \o req.tone.s \o <<")">> ELSE <<>>)

\* A title, an empty before, no note, a selection with spaces around it and a
\* tone value.
C25_Witness ==
  /\ pc = "compiled"
  /\ req.endpoint = "supabase"
  /\ req.noteTitle = Str(<<"Title">>) /\ req.noteContent = Undef
  /\ req.before = Str(<<>>)
  /\ req.selectedText = Str(<<" ", "Hi", " ">>)
  /\ req.action = Str(<<"shorter">>) /\ req.tone = Str(<<"Formal">>)
  /\ Contains(userMessage, <<"SELECTION:", "\n", "Hi", "\n">>)
  /\ Contains(userMessage, <<"BEFORE:", "\n", "(start of note)", "\n">>)
  /\ Contains(userMessage, <<"shorter", " (tone: ", "Formal", ")">>)

\* The label and the text of a backend entry as the handler reads them: ??
\* in index.ts, || in ai-edit.js.
LabelGiven(entry) ==
  IF req.endpoint = "supabase" THEN ~IsNullish(Get(entry, <<"label">>))
  ELSE Truthy(Get(entry, <<"label">>))

TextGiven(entry) ==
  IF req.endpoint = "supabase"
  THEN ToStr(Coalesce(Get(entry, <<"text">>), Str(<<>>)))
  ELSE ToStr(OrElse(Get(entry, <<"text">>), Str(<<>>)))

\* The positions in the backend's array of the entries that are kept.
KeptPositions ==
  {i \in 1..Len(RecoveredItems) : Trim(TextGiven(RecoveredItems[i])) # <<>>}

\* The k-th smallest member of a set of numbers.
Nth(set, k) == CHOOSE i \in set : Cardinality({j \in set : j <= i}) = k

\* C26: the alternatives of a success response are the kept entries of the
\* backend's array in their order, and an entry without a label is called
\* Option N with N its position in the backend's array, dropped entries
\* counted.
C26_PlaceholderIsPosition ==
  (ReplyHandled /\ resp.kind = "alternatives") =>
    /\ HasAlternativesArray
    /\ Len(resp.alternatives) = Cardinality(KeptPositions)
    /\ \A k \in 1..Len(resp.alternatives) :
         LET entry == RecoveredItems[Nth(KeptPositions, k)]
         IN /\ ToStr(resp.alternatives[k].text) = TextGiven(entry)
            /\ ToStr(resp.alternatives[k].label) =
                 (IF LabelGiven(entry) THEN ToStr(Get(entry, <<"label">>))
                  ELSE OptionLabel(Nth(KeptPositions, k)))

\* An entry without a label kept after a dropped one: the only alternative is
\* Option 2.
C26_Witness ==
  /\ ReplyHandled /\ resp.kind = "alternatives"
  /\ Len(RecoveredItems) = 2
  /\ KeptPositions = {2}
  /\ resp.alternatives = <<[label |-> Str(OptionLabel(2)), text |-> Str(<<"A">>)]>>

\* The alternatives of a response as the entries of an array.
AsEntries(alternatives) ==
  [k \in 1..Len(alternatives) |-> Alt(alternatives[k].label, alternatives[k].text)]

\* The map and filter of the handler applied to an array of entries.
NormaliseAt(endpoint, items) ==
  IF endpoint = "supabase" THEN NormaliseTs(items) ELSE NormaliseJs(items)

\* C27: the map and filter applied to the alternatives of a success response
\* give these alternatives again.
C27_NormaliseIsIdempotent ==
  (ReplyHandled /\ resp.kind = "alternatives") =>
    /\ ~NormaliseAt(req.endpoint, AsEntries(resp.alternatives)).threw
    /\ NormaliseAt(req.endpoint, AsEntries(resp.alternatives)).alts
         = resp.alternatives

\* A success response of ai-edit.js whose first alternative is called
\* Option 2, and one with a label that is a number.
C27_Witness ==
  /\ ReplyHandled /\ resp.kind = "alternatives"
  /\ req.endpoint = "api"
  /\ Len(resp.alternatives) = 1
  /\ resp.alternatives[1].label \in {Str(OptionLabel(2)), Num(7)}
  /\ Len(RecoveredItems) = 2

\* The actions edit.js serves: the six of SYSTEM_PROMPTS, and tone with a tone
\* value.
ServedByEdit(r) ==
  \/ r.action.t = "str" /\ Len(r.action.s) = 1 /\ r.action.s[1] \in EditPromptNames
  \/ r.action = Str(<<"tone">>) /\ Truthy(r.tone)

\* edit.js has decided on a request whose action it does not serve.
UnservedDecided ==
  /\ req.endpoint = "edit" /\ ReachesValidation
  /\ Truthy(req.action) /\ ~ServedByEdit(req)
  /\ pc # "start"

\* C28: edit.js answers a request whose action it does not serve with 400
\* Unknown action and calls no generator, whatever the action string: example,
\* tone without a tone value, names every object inherits.
C28_UnservedActionRejected ==
  UnservedDecided =>
    /\ pc = "done"
    /\ calls = 0
    /\ resp = TextResponse(<<"Unknown action">>, 400)

\* The same for the names no object inherits.
C28_UnservedOwnNameRejected ==
  (UnservedDecided /\ req.action.s[1] \notin InheritedNames) =>
    /\ pc = "done"
    /\ calls = 0
    /\ resp = TextResponse(<<"Unknown action">>, 400)

\* The request with another tone value.
WithTone(r, tone) == [r EXCEPT !.tone = tone]

\* C29: for an action other than tone, the system instructions and the
\* temperature are those of the same request with any other tone value.
C29_ToneOnlyForToneAction ==
  (pc = "compiled" /\ req.action # Str(<<"tone">>)) =>
    \A t \in ToneValues :
      /\ SystemFor(WithTone(req, t)) = systemPrompt
      /\ TemperatureFor(WithTone(req, t)) = temperature

\* shorter compiled with a tone value: the value is in the user message and
\* not in the system instructions.
C29_Witness ==
  /\ pc = "compiled"
  /\ req.action = Str(<<"shorter">>) /\ req.tone = Str(<<"Formal">>)
  /\ Contains(userMessage, <<" (tone: ", "Formal", ")">>)
  /\ ~Contains(systemPrompt, <<"Formal">>)
  /\ temperature = 2

\* voice/rewrite has answered a POST with status 200.
VoiceAnswered200 ==
  req.endpoint = "voice" /\ req.method = "POST" /\ pc = "done" /\ resp.status = 200

\* C30: a 200 answer of voice/rewrite has at least one alternative, each with
\* a title that is not empty and a text that is not blank.
C30_SuccessHasAlternatives ==
  VoiceAnswered200 =>
    /\ resp.kind = "alternatives"
    /\ Len(resp.alternatives) >= 1
    /\ \A k \in 1..Len(resp.alternatives) :
         /\ resp.alternatives[k].title.s # <<>>
         /\ Trim(resp.alternatives[k].text.s) # <<>>

\* What holds of every 200 answer: the alternatives that are returned have a
\* text that is not blank.
C30_ReturnedTextsNotBlank ==
  VoiceAnswered200 =>
    /\ resp.kind = "alternatives"
    /\ \A k \in 1..Len(resp.alternatives) :
         Trim(resp.alternatives[k].text.s) # <<>>
=============================================================================
